---- MODULE Spec2Model ----
(***************************************************************************)
(* Trading engine of crm-live-pro-server: createTrade / updateTradeStatus  *)
(* (services/admin/tradingServices.js, the revision with askSpread /       *)
(* bidSpread and TTB_FACTOR) and createTransaction /                       *)
(* updateTransactionStatus (transaction service).                          *)
(*                                                                         *)
(* Numbers.  JavaScript doubles are modelled in fixed point:               *)
(*   prices and volumes in thousandths (Milli),                            *)
(*   money in millionths of an AED (price x volume keeps its product).     *)
(* Number.toFixed(2) is rounding to two decimals (ties away from zero);    *)
(* the inputs below are chosen off the ties.                               *)
(***************************************************************************)
EXTENDS Integers, Sequences, FiniteSets, TLC

VARIABLES accounts, orders, lps, ledger, txns, requests, last, nCommits,
          sessions, chat, calls, mt5, md, balanceCheck, bridge, poller

vars == <<accounts, orders, lps, ledger, txns, requests, last, nCommits,
          sessions, chat, calls, mt5, md, balanceCheck, bridge, poller>>

----------------------------------------------------------------------------
(* Bounds of the model *)
MaxCommits == 3
MaxOrders == 2
MaxTxns == 2

(* JavaScript values.  An optional number is None (undefined / null) or  *)
(* Some(v); an optional string is Undefined or the string.                *)
Undefined == "undefined"
Null == "null"
None == <<>>
Some(v) == <<v>>
Val(x) == x[1]
TruthyNum(x) == x # None /\ Val(x) # 0
TruthyStr(x) == x # Undefined /\ x # Null /\ x # ""

(* Fixed-point scales *)
Milli == 1000
MoneyPerMilli == 1000
CentMoney == 10000
CentMilli == 10

(* tradingServices.js constants, in thousandths / hundredths *)
TROY_OUNCE_GRAMS == 31103
GOLD_CONVERSION_FACTOR == 3674
TTB_FACTOR == 11664

Abs(x) == IF x < 0 THEN -x ELSE x
Sgn(x) == IF x < 0 THEN -1 ELSE 1
Min(S) == CHOOSE x \in S : \A y \in S : x <= y

(* x * n / d without leaving the 32-bit range, rounded toward zero *)
MulDiv(x, n, d) ==
  LET a == Abs(x)
  IN  Sgn(x) * ((a \div d) * n + ((a % d) * n) \div d)

(* Number.prototype.toFixed(2), read back as a Number by the schema *)
RoundTo(x, step) == Sgn(x) * (((Abs(x) + step \div 2) \div step) * step)
ToFixed2Money(x) == RoundTo(x, CentMoney)
ToFixed2Milli(x) == RoundTo(x, CentMilli)

(* (price / TROY_OUNCE_GRAMS) * GOLD_CONVERSION_FACTOR * TTB_FACTOR * volume *)
GoldWeightValue(price, volume) ==
  LET perGram == MulDiv(price * MoneyPerMilli, 1000, TROY_OUNCE_GRAMS)
      inAed   == MulDiv(perGram, GOLD_CONVERSION_FACTOR, 1000)
      perBar  == MulDiv(inAed, TTB_FACTOR, 100)
  IN  MulDiv(perBar, volume, Milli)

----------------------------------------------------------------------------
(* Inputs *)
Users == {"u1", "u2"}
NoSuchUser == "u0"
Admins == {"a1", "a2"}
(* u2 is a bystander: requests name u1 or an id that is no account *)
Callers == {"u1", NoSuchUser}
OrderNos == 1..MaxOrders
Types == {"BUY", "SELL"}
OrderStatusEnum == {"PROCESSING", "EXECUTED", "CANCELLED", "CLOSED", "PENDING"}
MinVolume == 10
(* The write of a transaction that the database fails; 0: none *)
FailPoints == {0, 2, 5}

----------------------------------------------------------------------------
(* The database: collections and multi-document transactions *)

Store == [accounts |-> accounts, orders |-> orders, lps |-> lps,
          ledger |-> ledger, txns |-> txns]

(* One write of a transaction: insert or update of one document *)
ApplyWrite(s, w) ==
  CASE w.coll = "orders"   -> [s EXCEPT !.orders = (w.key :> w.doc) @@ s.orders]
    [] w.coll = "lps"      -> [s EXCEPT !.lps = (w.key :> w.doc) @@ s.lps]
    [] w.coll = "accounts" -> [s EXCEPT !.accounts = (w.key :> w.doc) @@ s.accounts]
    [] w.coll = "ledger"   -> [s EXCEPT !.ledger = Append(s.ledger, w.doc)]
    [] w.coll = "txns"     -> [s EXCEPT !.txns = (w.key :> w.doc) @@ s.txns]

(* OrderSchema validation and the unique index on orderNo *)
WriteRejected(s, w) ==
  /\ w.coll = "orders"
  /\ \/ w.insert /\ w.key \in DOMAIN s.orders
     \/ w.doc.type \notin Types
     \/ w.doc.volume < MinVolume
     \/ w.doc.orderStatus \notin OrderStatusEnum

RECURSIVE Staged(_, _, _)
Staged(s, writes, k) ==
  IF k = 0 THEN s ELSE ApplyWrite(Staged(s, writes, k - 1), writes[k])

(* A store without rollback: the writes made before the failure stay *)
KeepPartialWrites(before, partial) == partial

(* session.abortTransaction(): nothing the transaction wrote is kept *)
AbortTransaction(before, partial) == before

(* startTransaction ... commitTransaction / abortTransaction.  failAt is  *)
(* the write the database fails (0: none).                                *)
Transact(s, writes, failAt) ==
  LET failing == {i \in 1..Len(writes) :
                    \/ i = failAt
                    \/ WriteRejected(Staged(s, writes, i - 1), writes[i])}
  IN  IF failing = {}
      THEN [ok |-> TRUE, store |-> Staged(s, writes, Len(writes))]
      ELSE [ok |-> FALSE,
            store |-> AbortTransaction(s, Staged(s, writes, Min(failing) - 1))]

----------------------------------------------------------------------------
(* createTrade(adminId, userId, tradeData) *)

(* new Order({...tradeData, ...}): a strict schema keeps only its own     *)
(* paths, so tradeData.requiredMargin is not part of the stored order.    *)
NewOrder(adminId, userId, tradeData, clientOrderPrice) ==
  [orderNo      |-> tradeData.orderNo,
   type         |-> tradeData.type,
   volume       |-> tradeData.volume,
   symbol       |-> tradeData.symbol,
   price        |-> tradeData.price,
   openingPrice |-> ToFixed2Milli(clientOrderPrice),
   closingPrice |-> None,
   closingDate  |-> Null,
   orderStatus  |-> "PROCESSING",
   profit       |-> 0,
   user         |-> userId,
   adminId      |-> adminId,
   comment      |-> ""]

NewLPPosition(adminId, tradeData) ==
  [positionId   |-> tradeData.orderNo,
   type         |-> tradeData.type,
   volume       |-> tradeData.volume,
   symbol       |-> tradeData.symbol,
   adminId      |-> adminId,
   entryPrice   |-> tradeData.price,
   currentPrice |-> tradeData.price,
   closingPrice |-> None,
   closeDate    |-> Null,
   profit       |-> 0,
   clientOrders |-> tradeData.orderNo,
   status       |-> "OPEN"]

LedgerEntry(entryType, nature, ref, amount, running, asset, previous, user, adminId) ==
  [entryType       |-> entryType,
   entryNature     |-> nature,
   referenceNumber |-> ref,
   amount          |-> amount,
   runningBalance  |-> running,
   asset           |-> asset,
   previousBalance |-> previous,
   user            |-> user,
   adminId         |-> adminId]

InsertLedger(row) == [coll |-> "ledger", doc |-> row]

(* parseFloat(tradeData.requiredMargin || 0) *)
RequiredMarginOf(tradeData) ==
  IF TruthyNum(tradeData.requiredMargin) THEN Val(tradeData.requiredMargin) ELSE 0

(* clientOrderPrice: spot + askSpread for BUY, spot - bidSpread for SELL *)
ClientOrderPrice(account, type, currentPrice) ==
  IF type = "BUY" THEN currentPrice + account.askSpread
                  ELSE currentPrice - account.bidSpread

(* Lines 636-647: metal is added for BUY, subtracted for SELL *)
MetalAfterOpen(type, currentMetalBalance, volume) ==
  IF type = "BUY" THEN currentMetalBalance + volume
  ELSE IF type = "SELL" THEN currentMetalBalance - volume
  ELSE currentMetalBalance

createTrade(s, adminId, userId, tradeData, failAt) ==
  IF userId \notin DOMAIN s.accounts
  THEN [ok |-> FALSE, store |-> s, error |-> "User account not found"]
  ELSE
    LET userAccount         == s.accounts[userId]
        currentCashBalance  == userAccount.AMOUNTFC
        currentMetalBalance == userAccount.METAL_WT
        currentPrice        == tradeData.price
        volume              == tradeData.volume
        clientOrderPrice    == ClientOrderPrice(userAccount, tradeData.type, currentPrice)
        goldWeightValue     == GoldWeightValue(clientOrderPrice, volume)
        lpCurrentPrice      == GoldWeightValue(currentPrice, volume)
        requiredMargin      == RequiredMarginOf(tradeData)
        newCashBalance      == currentCashBalance - requiredMargin
        newMetalBalance     == MetalAfterOpen(tradeData.type, currentMetalBalance,
                                              tradeData.volume)
        ref                 == tradeData.orderNo
        writes ==
          << [coll |-> "orders", key |-> ref, insert |-> TRUE,
              doc |-> NewOrder(adminId, userId, tradeData, clientOrderPrice)],
             [coll |-> "lps", key |-> ref,
              doc |-> NewLPPosition(adminId, tradeData)],
             [coll |-> "accounts", key |-> userId,
              doc |-> [userAccount EXCEPT
                         !.AMOUNTFC = ToFixed2Money(newCashBalance),
                         !.METAL_WT = ToFixed2Milli(newMetalBalance)]],
             InsertLedger(LedgerEntry("ORDER", "DEBIT", ref,
                 ToFixed2Money(requiredMargin), ToFixed2Money(newCashBalance),
                 Null, None, userId, adminId)),
             InsertLedger(LedgerEntry("LP_POSITION", "CREDIT", ref,
                 ToFixed2Money(lpCurrentPrice), ToFixed2Money(newCashBalance),
                 Null, None, userId, adminId)),
             InsertLedger(LedgerEntry("TRANSACTION", "DEBIT", ref,
                 ToFixed2Money(requiredMargin), ToFixed2Money(newCashBalance),
                 "CASH", Some(currentCashBalance), userId, adminId)),
             InsertLedger(LedgerEntry("TRANSACTION",
                 IF tradeData.type = "BUY" THEN "CREDIT" ELSE "DEBIT", ref,
                 tradeData.volume, ToFixed2Milli(newMetalBalance),
                 "GOLD", Some(currentMetalBalance), userId, adminId)) >>
        t == Transact(s, writes, failAt)
    IN  [ok |-> t.ok, store |-> t.store,
         error |-> IF t.ok THEN "" ELSE "Error creating trade"]

----------------------------------------------------------------------------
(* updateTradeStatus(adminId, orderId, updateData) *)

allowedUpdates ==
  {"orderStatus", "closingPrice", "closingDate", "profit", "comment", "price"}

Absent(k) == IF k \in {"orderStatus", "closingDate", "comment"} THEN Undefined ELSE None

(* A filter that lets every key of the request through *)
KeepEveryKey(updateData) ==
  LET picked == [k \in allowedUpdates \cup DOMAIN updateData |->
                   IF k \in DOMAIN updateData THEN updateData[k] ELSE Absent(k)]
      dated  == IF updateData.orderStatus = "CLOSED" /\ ~TruthyStr(picked.closingDate)
                THEN [picked EXCEPT !.closingDate = "now"]
                ELSE picked
  IN  IF TruthyNum(dated.closingPrice)
      THEN [dated EXCEPT !.price = dated.closingPrice]
      ELSE dated

(* Lines 884-897: whitelist, default closing date, closingPrice mirrored *)
(* to price.                                                              *)
Sanitize(updateData) ==
  LET picked == [k \in allowedUpdates |->
                   IF k \in DOMAIN updateData THEN updateData[k] ELSE Absent(k)]
      dated  == IF updateData.orderStatus = "CLOSED" /\ ~TruthyStr(picked.closingDate)
                THEN [picked EXCEPT !.closingDate = "now"]
                ELSE picked
  IN  IF TruthyNum(dated.closingPrice)
      THEN [dated EXCEPT !.price = dated.closingPrice]
      ELSE dated

(* Closing a BUY sells back at spot - bidSpread, closing a SELL buys back *)
(* at spot + askSpread.                                                   *)
ClientClosingPrice(account, type, currentPrice) ==
  IF type = "BUY" THEN currentPrice - account.bidSpread
                  ELSE currentPrice + account.askSpread

ClientProfit(type, entryPrice, clientClosingPrice, volume) ==
  IF type = "BUY" THEN (clientClosingPrice - entryPrice) * volume
                  ELSE (entryPrice - clientClosingPrice) * volume

(* order.requiredMargin as read from the stored document *)
OrderRequiredMargin(order) ==
  IF "requiredMargin" \in DOMAIN order THEN order.requiredMargin ELSE None

SettlementAmount(order, closingGoldWeightValue, entryGoldWeightValue) ==
  IF TruthyNum(OrderRequiredMargin(order))
  THEN Val(OrderRequiredMargin(order))
  ELSE IF order.type = "BUY" THEN closingGoldWeightValue ELSE entryGoldWeightValue

(* Object.keys(sanitizedData).forEach(key => order[key] = ...) and the    *)
(* profit written on close.                                               *)
UpdatedOrder(order, sd, profitValue) ==
  LET set(k, old) == IF sd[k] = Absent(k) THEN old ELSE sd[k]
      applied == [order EXCEPT
                    !.orderStatus  = set("orderStatus", @),
                    !.closingPrice = set("closingPrice", @),
                    !.closingDate  = set("closingDate", @),
                    !.profit       = IF sd.profit = None THEN @ ELSE Val(sd.profit),
                    !.comment      = set("comment", @),
                    !.price        = IF sd.price = None THEN @ ELSE Val(sd.price)]
      others == (DOMAIN sd \ allowedUpdates) \cap DOMAIN order
      copied == IF others = {} THEN applied
                ELSE [f \in DOMAIN order |->
                        IF f \in others THEN sd[f] ELSE applied[f]]
  IN  IF sd.orderStatus = "CLOSED"
      THEN [copied EXCEPT !.profit = ToFixed2Money(profitValue)]
      ELSE copied

(* The spread of the opening leg alone, without the closing leg's *)
OpeningSpreadOnly(lpEntryPrice, entryPrice, clientClosingPrice, currentPrice, volume) ==
  ToFixed2Money(Abs(GoldWeightValue(lpEntryPrice, volume)
                    - GoldWeightValue(entryPrice, volume)))

(* Lines 1039-1045 *)
LpProfit(lpEntryPrice, entryPrice, clientClosingPrice, currentPrice, volume) ==
  LET orderOpeningGoldWeightValue == GoldWeightValue(entryPrice, volume)
      lpEntryGoldWeightValue      == GoldWeightValue(lpEntryPrice, volume)
      orderClosingGoldWeightValue == GoldWeightValue(clientClosingPrice, volume)
      lpClosingGoldWeightValue    == GoldWeightValue(currentPrice, volume)
      openingDifference == Abs(lpEntryGoldWeightValue - orderOpeningGoldWeightValue)
      closingDifference == Abs(lpClosingGoldWeightValue - orderClosingGoldWeightValue)
  IN  ToFixed2Money(openingDifference + closingDifference)

UpdatedLPPosition(lp, sd, currentPrice, lpProfit) ==
  LET priced == IF TruthyNum(sd.closingPrice)
                THEN [lp EXCEPT !.closingPrice = Some(currentPrice),
                                !.currentPrice = currentPrice]
                ELSE lp
      dated  == IF TruthyStr(sd.closingDate)
                THEN [priced EXCEPT !.closeDate = sd.closingDate]
                ELSE priced
  IN  IF sd.orderStatus = "CLOSED"
      THEN [dated EXCEPT !.status = "CLOSED", !.profit = lpProfit]
      ELSE IF TruthyNum(sd.price)
      THEN [dated EXCEPT !.currentPrice = currentPrice]
      ELSE dated

updateTradeStatus(s, adminId, orderId, updateData, failAt) ==
  LET sanitized == Sanitize(updateData)
      fail(msg) == [ok |-> FALSE, store |-> s, error |-> msg,
                    clientProfit |-> 0, sanitized |-> sanitized]
  IN
  IF ~(orderId \in DOMAIN s.orders /\ s.orders[orderId].adminId = adminId)
  THEN fail("Order not found or unauthorized")
  ELSE IF s.orders[orderId].user \notin DOMAIN s.accounts
  THEN fail("User account not found")
  ELSE
    LET order               == s.orders[orderId]
        userAccount         == s.accounts[order.user]
        closing             == sanitized.orderStatus = "CLOSED"
        currentPrice        == IF TruthyNum(sanitized.closingPrice)
                               THEN Val(sanitized.closingPrice) ELSE order.price
        clientClosingPrice  == ClientClosingPrice(userAccount, order.type, currentPrice)
        sd                  == IF closing
                               THEN [sanitized EXCEPT !.closingPrice = Some(clientClosingPrice)]
                               ELSE sanitized
        entryPrice          == order.openingPrice
        volume              == order.volume
        entryGoldWeightValue   == GoldWeightValue(entryPrice, volume)
        closingGoldWeightValue == GoldWeightValue(currentPrice, volume)
        profitValue         == IF order.type = "BUY"
                               THEN closingGoldWeightValue - entryGoldWeightValue
                               ELSE entryGoldWeightValue - closingGoldWeightValue
        clientProfit        == ClientProfit(order.type, entryPrice, clientClosingPrice, volume)
        currentCashBalance  == userAccount.AMOUNTFC
        currentMetalBalance == userAccount.METAL_WT
        orderWrite == [coll |-> "orders", key |-> orderId, insert |-> FALSE,
                       doc |-> UpdatedOrder(order, sd, profitValue)]
        hasLp      == order.orderNo \in DOMAIN s.lps
        lp         == s.lps[order.orderNo]
        lpProfit   == LpProfit(lp.entryPrice, entryPrice, clientClosingPrice,
                               currentPrice, volume)
        lpWrite    == [coll |-> "lps", key |-> order.orderNo,
                       doc |-> UpdatedLPPosition(lp, sd, currentPrice, lpProfit)]
        settlementAmount == SettlementAmount(order, closingGoldWeightValue,
                                             entryGoldWeightValue)
        userProfit      == IF clientProfit > 0 THEN clientProfit ELSE 0
        newCashBalance  == currentCashBalance + settlementAmount + userProfit
        newMetalBalance == IF order.type = "BUY" THEN currentMetalBalance - volume
                                                 ELSE currentMetalBalance + volume
        ref == order.orderNo
        closeWrites ==
          << [coll |-> "accounts", key |-> order.user,
              doc |-> [userAccount EXCEPT !.AMOUNTFC = newCashBalance,
                                          !.METAL_WT = newMetalBalance]],
             InsertLedger(LedgerEntry("ORDER", "CREDIT", ref,
                 ToFixed2Money(settlementAmount + userProfit),
                 ToFixed2Money(newCashBalance), Null, None, order.user, adminId)),
             InsertLedger(LedgerEntry("LP_POSITION", "DEBIT", ref,
                 ToFixed2Money(settlementAmount),
                 ToFixed2Money(newCashBalance), Null, None, order.user, adminId)),
             InsertLedger(LedgerEntry("TRANSACTION", "CREDIT", ref,
                 ToFixed2Money(settlementAmount),
                 ToFixed2Money(newCashBalance), "CASH", Some(currentCashBalance),
                 order.user, adminId)),
             InsertLedger(LedgerEntry("TRANSACTION",
                 IF order.type = "BUY" THEN "DEBIT" ELSE "CREDIT", ref,
                 volume, newMetalBalance, "GOLD", Some(currentMetalBalance),
                 order.user, adminId)) >>
        writes == <<orderWrite>>
                  \o (IF hasLp THEN <<lpWrite>> ELSE <<>>)
                  \o (IF hasLp /\ closing THEN closeWrites ELSE <<>>)
        t == Transact(s, writes, failAt)
    IN  [ok |-> t.ok, store |-> t.store,
         error |-> IF t.ok THEN "" ELSE "Error updating trade",
         clientProfit |-> clientProfit, sanitized |-> sd]

----------------------------------------------------------------------------
(* createTransaction / updateTransactionStatus (deposits and withdrawals) *)

TxnTypes == {"DEPOSIT", "WITHDRAWAL"}
Assets == {"CASH", "GOLD"}
validStatuses == {"PENDING", "COMPLETED", "FAILED", "CANCELLED"}
CashAmounts == {50000000, 20000000}
GoldAmounts == {1000}
AmountsOf(asset) == IF asset = "CASH" THEN CashAmounts ELSE GoldAmounts

BalanceField(asset) == IF asset = "CASH" THEN "AMOUNTFC" ELSE "METAL_WT"

(* A transaction service that lets every withdrawal through *)
NeverInsufficient(type, previousBalance, amount) == FALSE

(* `if (previousBalance < amount) throw` of a WITHDRAWAL *)
InsufficientBalance(type, previousBalance, amount) ==
  type = "WITHDRAWAL" /\ previousBalance < amount

createTransaction(s, transactionData, failAt) ==
  LET type   == transactionData.type
      asset  == transactionData.asset
      amount == transactionData.amount
      user   == transactionData.user
      fail(msg) == [ok |-> FALSE, store |-> s, error |-> msg]
  IN
  IF user \notin DOMAIN s.accounts THEN fail("Account not found")
  ELSE
    LET account         == s.accounts[user]
        previousBalance == account[BalanceField(asset)]
    IN  IF InsufficientBalance(type, previousBalance, amount)
        THEN fail("Insufficient balance for withdrawal")
        ELSE
          LET newBalance == IF type = "DEPOSIT" THEN previousBalance + amount
                                                ELSE previousBalance - amount
              transactionId == transactionData.transactionId
              writes ==
                << [coll |-> "accounts", key |-> user,
                    doc |-> [account EXCEPT ![BalanceField(asset)] = newBalance]],
                   [coll |-> "txns", key |-> transactionId,
                    doc |-> [transactionId   |-> transactionId,
                             adminId         |-> transactionData.adminId,
                             type            |-> type,
                             asset           |-> asset,
                             amount          |-> amount,
                             user            |-> user,
                             previousBalance |-> previousBalance,
                             newBalance      |-> newBalance,
                             status          |-> "COMPLETED"]] >>
              t == Transact(s, writes, failAt)
          IN  [ok |-> t.ok, store |-> t.store,
               error |-> IF t.ok THEN "" ELSE "write failed"]

(* A status change that leaves the balance as it is *)
BalanceKept(transaction, balance) == balance

(* "Reverse the transaction": a deposit is taken back, a withdrawal is *)
(* given back                                                          *)
ReversedBalance(transaction, balance) ==
  IF transaction.type = "DEPOSIT" THEN balance - transaction.amount
                                  ELSE balance + transaction.amount

updateTransactionStatus(s, transactionId, status, failAt) ==
  LET fail(msg) == [ok |-> FALSE, store |-> s, error |-> msg] IN
  IF status \notin validStatuses THEN fail("Invalid transaction status")
  ELSE IF transactionId \notin DOMAIN s.txns THEN fail("Transaction not found")
  ELSE
    LET transaction == s.txns[transactionId]
        statusWrite == [coll |-> "txns", key |-> transactionId,
                        doc |-> [transaction EXCEPT !.status = status]]
    IN
    IF status \in {"CANCELLED", "FAILED"} /\ transaction.status = "COMPLETED"
    THEN
      IF transaction.user \notin DOMAIN s.accounts THEN fail("Account not found")
      ELSE
        LET account  == s.accounts[transaction.user]
            field    == BalanceField(transaction.asset)
            reversed == ReversedBalance(transaction, account[field])
            writes ==
              << [coll |-> "accounts", key |-> transaction.user,
                  doc |-> [account EXCEPT ![field] = reversed]],
                 statusWrite >>
            t == Transact(s, writes, failAt)
        IN  [ok |-> t.ok, store |-> t.store,
             error |-> IF t.ok THEN "" ELSE "write failed"]
    ELSE
      (* "simpler status updates": one save outside any transaction *)
      IF failAt # 0 THEN fail("write failed")
      ELSE [ok |-> TRUE, store |-> ApplyWrite(s, statusWrite), error |-> ""]

----------------------------------------------------------------------------
(* The server: every request runs one of the four operations *)

(* new MT5Service(): not connected, nothing cached, no request sent, no *)
(* placeTrade or closeTrade call running. deviation 0 stands for a     *)
(* tradeData without a deviation field.                                *)
NoPlaceCall ==
  [pc |-> "idle", retryCount |-> 0, deviation |-> 0, history |-> <<>>,
   result |-> <<>>]

NoCloseCall ==
  [pc |-> "idle", ticket |-> Undefined, retryCount |-> 0, history |-> <<>>,
   result |-> <<>>]

NewMT5Service ==
  [isConnected |-> FALSE, priceData |-> <<>>, lastPriceUpdate |-> <<>>,
   requestId |-> 0, now |-> 1, place |-> NoPlaceCall, close |-> NoCloseCall]

(* new OptimizedMT5MarketDataService() *)
(* and no getMarketData call running. data is the tick the call read   *)
(* from the bridge's cache, NoData when there was none.                *)
NoData == [bid |-> 0, ask |-> 0, timestamp |-> 0]

NewMarketDataService ==
  [pc |-> "idle", symbol |-> Undefined, data |-> NoData, refresh |-> "none",
   result |-> <<>>]

(* No checkSufficientBalance call made yet *)
NoBalanceCheck == [accountId |-> Null, volume |-> 0, result |-> <<>>]

(* The transport of new MT5Service(): the child process spawned, no id  *)
(* handed out, no callback registered. sent lists the requests in the  *)
(* order sendCommand made them; now is the clock its timers run on.    *)
NewBridge ==
  [pythonProcess |-> TRUE, requestId |-> 0, responseCallbacks |-> {},
   sent |-> <<>>, disconnecting |-> 0, now |-> 0]

(* The poller of new OptimizedMT5MarketDataService(): no interval      *)
(* timer set before the bridge has connected, no poll running. period  *)
(* is the delay the live timer was set with, running the number of     *)
(* polls between their start and their end, startedOn the delay of the *)
(* timer whose tick began the running poll.                            *)
NewPoller ==
  [priceUpdateInterval |-> 0, period |-> 0, isUpdating |-> FALSE,
   UPDATE_INTERVAL |-> 10000, running |-> 0, pc |-> "idle",
   startedOn |-> 0]

(* No engine call in flight, no account written yet *)
NoCalls == [txn |-> <<>>, version |-> [u \in Users |-> 0]]

(* The chat channel at rest: no session yet, no message delivered *)
NoChat ==
  [n |-> 0, sid |-> 0, from |-> "", body |-> "", duplicate |-> FALSE,
   status |-> 0, reply |-> "", engine |-> <<>>]

NewAccount(askSpread, bidSpread, adminId) ==
  [AMOUNTFC |-> 0, METAL_WT |-> 0, askSpread |-> askSpread,
   bidSpread |-> bidSpread, addedBy |-> adminId]

(* The per-account spreads an admin has set on the trading account *)
Spreads == {[askSpread |-> 500, bidSpread |-> 250], [askSpread |-> 0, bidSpread |-> 0]}

Init ==
  /\ \E spread \in Spreads :
       accounts = ("u1" :> NewAccount(spread.askSpread, spread.bidSpread, "a1"))
                  @@ ("u2" :> NewAccount(0, 0, "a2"))
  /\ orders = <<>>
  /\ lps = <<>>
  /\ ledger = <<>>
  /\ txns = <<>>
  /\ requests = <<>>
  /\ last = [op |-> "none", ok |-> TRUE]
  /\ nCommits = 0
  /\ sessions = <<>>
  /\ chat = NoChat
  /\ calls = NoCalls
  /\ mt5 = NewMT5Service
  /\ md = NewMarketDataService
  /\ balanceCheck = NoBalanceCheck
  /\ bridge = NewBridge
  /\ poller = NewPoller

(* What the caller gets back from a call that threw *)
Failed(op, error) == [op |-> op, ok |-> FALSE, error |-> error]

Commit(r) ==
  /\ accounts' = r.store.accounts
  /\ orders' = r.store.orders
  /\ lps' = r.store.lps
  /\ ledger' = r.store.ledger
  /\ txns' = r.store.txns
  /\ nCommits' = IF r.ok THEN nCommits + 1 ELSE nCommits
  /\ UNCHANGED <<sessions, chat, calls, mt5, md, balanceCheck,
                 bridge, poller>>

(* The order number is the caller's: a fresh one or one already used *)
OrderNoChoices == {n \in OrderNos : n <= Cardinality(DOMAIN orders) + 1}

(* The requests the admin surface and the chat channel send *)
TradeRequests ==
  { [type |-> "BUY",  volume |-> 1000, price |-> 10000, requiredMargin |-> Some(19027000)],
    [type |-> "SELL", volume |-> 1000, price |-> 10504, requiredMargin |-> None],
    [type |-> "BUY",  volume |-> 12,   price |-> 10504, requiredMargin |-> None],
    [type |-> "SELL", volume |-> 12,   price |-> 10000, requiredMargin |-> Some(19027000)] }

(* The model follows the server up to MaxCommits committed calls and up to *)
(* the first call that throws: a call that throws leaves the stores as    *)
(* they were, so the calls after it are the calls after its pre-state.    *)
Serving == nCommits < MaxCommits /\ last.ok

OpenTrade ==
  /\ Serving
  /\ \E adminId \in Admins, userId \in Callers,
        orderNo \in OrderNoChoices, req \in TradeRequests, failAt \in FailPoints :
       LET tradeData == [orderNo |-> orderNo, type |-> req.type,
                         volume |-> req.volume, symbol |-> "GOLD",
                         price |-> req.price,
                         requiredMargin |-> req.requiredMargin]
           r == createTrade(Store, adminId, userId, tradeData, failAt)
       IN  /\ Commit(r)
           /\ requests' = IF r.ok THEN (orderNo :> tradeData) @@ requests
                                    ELSE requests
           /\ last' = IF r.ok
                       THEN [op |-> "createTrade", ok |-> TRUE, adminId |-> adminId,
                             user |-> userId, orderNo |-> orderNo,
                             tradeData |-> tradeData]
                       ELSE Failed("createTrade", r.error)

NoUpdate ==
  [orderStatus |-> Undefined, closingPrice |-> None, closingDate |-> Undefined,
   profit |-> None, comment |-> Undefined, price |-> None]

(* An update that names restricted fields of the order and nothing else *)
RestrictedUpdate ==
  [orderStatus |-> Undefined, closingPrice |-> None, closingDate |-> Undefined,
   profit |-> None, comment |-> Undefined, price |-> None,
   type |-> "BUY", volume |-> 5000, user |-> "u2"]

UpdateRequests ==
  { [NoUpdate EXCEPT !.orderStatus = "CLOSED", !.closingPrice = Some(10504)],
    [NoUpdate EXCEPT !.orderStatus = "CLOSED", !.closingPrice = Some(10000)],
    [NoUpdate EXCEPT !.orderStatus = "CLOSED"],
    [NoUpdate EXCEPT !.orderStatus = "CANCELLED"],
    [NoUpdate EXCEPT !.orderStatus = "FAILED"],
    [NoUpdate EXCEPT !.orderStatus = "PROCESSING"],
    [NoUpdate EXCEPT !.closingPrice = Some(10504)],
    RestrictedUpdate }

CloseTrade ==
  /\ Serving
  /\ \E adminId \in Admins, orderId \in OrderNoChoices, updateData \in UpdateRequests,
        failAt \in FailPoints :
       LET r == updateTradeStatus(Store, adminId, orderId, updateData, failAt)
       IN  /\ Commit(r)
           /\ UNCHANGED requests
           /\ last' = IF r.ok
                       THEN [op |-> "updateTradeStatus", ok |-> TRUE,
                             adminId |-> adminId, orderNo |-> orderId,
                             updateData |-> updateData,
                             clientProfit |-> r.clientProfit]
                       ELSE Failed("updateTradeStatus", r.error)

CreateTransaction ==
  /\ Serving
  /\ Cardinality(DOMAIN txns) < MaxTxns
  /\ \E type \in TxnTypes, asset \in Assets, user \in Callers, failAt \in FailPoints :
     \E amount \in AmountsOf(asset) :
       LET transactionData == [transactionId |-> Cardinality(DOMAIN txns) + 1,
                               type |-> type, asset |-> asset, amount |-> amount,
                               user |-> user, adminId |-> "a1"]
           r == createTransaction(Store, transactionData, failAt)
       IN  /\ Commit(r)
           /\ UNCHANGED requests
           /\ last' = IF r.ok
                       THEN [op |-> "createTransaction", ok |-> TRUE, user |-> user,
                             transactionData |-> transactionData]
                       ELSE Failed("createTransaction", r.error)

TxnIdChoices == {n \in 1..MaxTxns : n <= Cardinality(DOMAIN txns) + 1}

UpdateTransactionStatus ==
  /\ Serving
  /\ \E transactionId \in TxnIdChoices, status \in validStatuses \cup {"BOGUS"},
        failAt \in FailPoints :
       LET r == updateTransactionStatus(Store, transactionId, status, failAt)
       IN  /\ Commit(r)
           /\ UNCHANGED requests
           /\ last' = IF r.ok
                       THEN [op |-> "updateTransactionStatus", ok |-> TRUE,
                             transactionId |-> transactionId, status |-> status]
                       ELSE Failed("updateTransactionStatus", r.error)

Next == OpenTrade \/ CloseTrade \/ CreateTransaction \/ UpdateTransactionStatus

Spec == Init /\ [][Next]_vars

----------------------------------------------------------------------------
(* The chat channel: handleWhatsAppWebhook, processUserInput and the      *)
(* order placement / close helpers of the chat controller.                *)

MaxDeliveries == 6

Phones == {"p1", "p0"}

(* Every number is taken for the registered one *)
AuthorizeAnyone(From) == [isAuthorized |-> TRUE, accountId |-> "u1"]

(* isAuthorizedUser: Account.findOne({phoneNumber: ...}) *)
isAuthorizedUser(From) ==
  IF From = "p1" THEN [isAuthorized |-> TRUE, accountId |-> "u1"]
                 ELSE [isAuthorized |-> FALSE, accountId |-> Null]

(* getAdminUser: Admin.findOne({}) *)
getAdminUser == "a1"

(* The message texts, after trim().toLowerCase() *)
Bodies ==
  {"hi", "reset", "cancel", "menu", "1", "2", "3", "5", "y", "n",
   "sell 1", "1 oz", "close 1", "zzz"}

NoShortOrder == [action |-> Null, volume |-> 0]

(* parseShortOrderCommand: (BUY|SELL) N [TTB], NTTB, bare N (a BUY) *)
parseShortOrderCommand(input) ==
  CASE input = "sell 1" -> [action |-> "SELL", volume |-> 1]
    [] input = "1"      -> [action |-> "BUY", volume |-> 1]
    [] input = "2"      -> [action |-> "BUY", volume |-> 2]
    [] input = "3"      -> [action |-> "BUY", volume |-> 3]
    [] input = "4"      -> [action |-> "BUY", volume |-> 4]
    [] input = "5"      -> [action |-> "BUY", volume |-> 5]
    [] OTHER            -> NoShortOrder

(* inputText.toUpperCase().match(/^CLOSE\s+(.+)$/) and parseInt of it: *)
(* the 1-based index, 0 when the text is no CLOSE command              *)
closeCommandMatch(input) == IF input = "close 1" THEN 1 ELSE 0

(* parseFloat(input) in SELECT_QUANTITY: the leading number, 0 for NaN *)
ParseFloat(input) ==
  CASE input = "1" -> 1 [] input = "2" -> 2 [] input = "3" -> 3
    [] input = "4" -> 4 [] input = "5" -> 5
    [] input = "1 oz" -> 1 [] OTHER -> 0

(* Gold quotes of the market data service, in thousandths; NoQuote when *)
(* no fresh price is cached.                                            *)
NoQuote == [bid |-> 0, ask |-> 0]
Quotes == {[bid |-> 1000, ask |-> 1504], NoQuote}

(* calculateTTBPrice *)
calculateTTBPrice(goldPrice) ==
  MulDiv(MulDiv(MulDiv(goldPrice, 1000, TROY_OUNCE_GRAMS),
                GOLD_CONVERSION_FACTOR, 1000), TTB_FACTOR, 100)

fetchLatestTTBPrices(quote) ==
  [askPrice |-> calculateTTBPrice(quote.ask),
   bidPrice |-> calculateTTBPrice(quote.bid)]

(* utils/constants.js *)
BASE_AMOUNT_PER_VOLUME == 200000000
MINIMUM_BALANCE_PERCENTAGE == 2

(* Order.find({user, orderStatus: "PROCESSING"}).sort({createdAt: -1}): *)
(* order numbers grow with creation, so newest first is largest first.  *)
OpenOrdersOf(s, accountId) ==
  {o \in DOMAIN s.orders :
     s.orders[o].user = accountId /\ s.orders[o].orderStatus = "PROCESSING"}

RECURSIVE SumVolume(_, _)
SumVolume(s, os) ==
  IF os = {} THEN 0
  ELSE LET o == CHOOSE x \in os : TRUE
       IN  s.orders[o].volume \div Milli + SumVolume(s, os \ {o})

(* A policy that forgets the exposure of the open orders when it decides *)
ForgetfulBalancePolicy(userBalance, volumeValue, existingVolume, base, percentage) ==
  LET WithMargin(v) == v * (base \div 100) * (100 + percentage)
  IN [success |-> userBalance - WithMargin(volumeValue) >= 0 /\ volumeValue > 0,
      existingVolume |-> existingVolume,
      remainingBalance |-> userBalance - WithMargin(volumeValue + existingVolume),
      maxAllowedVolume |-> (userBalance - WithMargin(existingVolume)) \div WithMargin(1)]

(* checkSufficientBalance from the balance on: the amounts are money in  *)
(* millionths, the volumes whole numbers (parseInt)                      *)
BalancePolicy(userBalance, volumeValue, existingVolume, base, percentage) ==
  LET WithMargin(v)       == v * (base \div 100) * (100 + percentage)
      totalRequiredAmount == WithMargin(volumeValue)
      totalExistingAmount == WithMargin(existingVolume)
      remainingBalance    == userBalance - (totalRequiredAmount + totalExistingAmount)
  IN [success |-> remainingBalance >= 0 /\ volumeValue > 0,
      existingVolume |-> existingVolume,
      remainingBalance |-> remainingBalance,
      maxAllowedVolume |-> (userBalance - totalExistingAmount) \div WithMargin(1)]

(* The early returns of checkSufficientBalance: success false, no amounts *)
NoBalancePolicy ==
  [success |-> FALSE, existingVolume |-> 0, remainingBalance |-> 0,
   maxAllowedVolume |-> 0]

(* checkSufficientBalance(accountId, volume) *)
checkSufficientBalance(s, accountId, volume) ==
  IF accountId \notin DOMAIN s.accounts \/ s.accounts[accountId].AMOUNTFC = 0
  THEN NoBalancePolicy
  ELSE IF volume <= 0 THEN NoBalancePolicy
  ELSE BalancePolicy(s.accounts[accountId].AMOUNTFC, volume,
                     SumVolume(s, OpenOrdersOf(s, accountId)),
                     BASE_AMOUNT_PER_VOLUME, MINIMUM_BALANCE_PERCENTAGE)

(* getUserSession: a session is created on the first message of a phone *)
NoCurrentOrder == [type |-> Null, quantity |-> 0]
NewSession == [state |-> "START", currentOrder |-> NoCurrentOrder, accountId |-> Null]

getUserSession(ss, From) == IF From \in DOMAIN ss THEN ss[From] ELSE NewSession

(* resetSession(From): the phone starts over with a new session *)
resetSession(ss, From) == (From :> NewSession) @@ ss

(* What a chat helper makes of the engine's answer: { success, ... } *)
EngineResult(call, r) ==
  [success |-> r.ok, store |-> r.store, engine |-> <<call>>]

(* The tradeData processOrderPlacement hands to createTrade *)
PlacementTradeData(volume, type, quote, orderNo) ==
  LET goldPrice == IF type = "BUY" THEN quote.ask ELSE quote.bid
  IN [orderNo |-> orderNo, type |-> type, volume |-> volume * Milli,
      symbol |-> "GOLD", price |-> goldPrice,
      requiredMargin |-> Some(goldPrice * volume * MoneyPerMilli)]

(* processOrderPlacement(session, volume, type): quote, margin, createTrade *)
processOrderPlacement(s, session, volume, type, quote, orderNo, failAt) ==
  LET ttbPrices == fetchLatestTTBPrices(quote)
      ttbPrice  == IF type = "BUY" THEN ttbPrices.askPrice ELSE ttbPrices.bidPrice
      goldPrice == IF type = "BUY" THEN quote.ask ELSE quote.bid
      tradeData == PlacementTradeData(volume, type, quote, orderNo)
  IN  IF ttbPrice = 0 \/ goldPrice = 0
      THEN [success |-> FALSE, store |-> s, engine |-> <<>>]
      ELSE EngineResult("createTrade",
             createTrade(s, getAdminUser, session.accountId, tradeData, failAt))

(* processOrderClose(session, orderId): only a PROCESSING order of the  *)
(* session's account, closed at the TTB quote of the opposite side.     *)
processOrderClose(s, session, orderId, quote, failAt) ==
  IF orderId \notin OpenOrdersOf(s, session.accountId)
  THEN [success |-> FALSE, store |-> s, engine |-> <<>>]
  ELSE
    LET order        == s.orders[orderId]
        closeType    == IF order.type = "BUY" THEN "SELL" ELSE "BUY"
        ttbPrices    == fetchLatestTTBPrices(quote)
        currentPrice == IF closeType = "BUY" THEN ttbPrices.askPrice
                                             ELSE ttbPrices.bidPrice
        updateData   == [orderStatus |-> "CLOSED", closingPrice |-> Some(currentPrice),
                         closingDate |-> "now", profit |-> None,
                         comment |-> Undefined, price |-> None]
    IN  IF currentPrice = 0
        THEN [success |-> FALSE, store |-> s, engine |-> <<>>]
        ELSE EngineResult("updateTradeStatus",
               updateTradeStatus(s, getAdminUser, orderId, updateData, failAt))

(* The reply processUserInput makes of a helper's result *)
Helped(sess, done, failed, result) ==
  [session |-> sess, store |-> result.store,
   reply |-> IF result.success THEN done ELSE failed, engine |-> result.engine,
   thrown |-> FALSE]

(* The database fault of a request hits the first read that follows the *)
(* authorization                                                        *)
ReadFails(failAt) == failAt # 0

(* Every text confirms *)
AnyTextConfirms(input) == TRUE

(* CONFIRM_ORDER: input === "y" || input.includes("yes") *)
Confirms(input) == input \in {"y", "yes"}

(* CONFIRM_ORDER: input === "n" || includes("no") || includes("cancel") *)
Declines(input) == input \in {"n", "no", "cancel"}

(* processUserInput(inputText, session, ...) of the message service *)
processUserInput(s, session, input, quote, orderNo, failAt) ==
  LET Answer(sess, reply) ==
        [session |-> sess, store |-> s, reply |-> reply, engine |-> <<>>,
         thrown |-> FALSE]
      (* an await rejects: the session keeps what was assigned before it *)
      Throws(sess) ==
        [session |-> sess, store |-> s, reply |-> "", engine |-> <<>>,
         thrown |-> TRUE]
      (* formatStatementAsText: Ledger.find outside any try *)
      Statement(sess) ==
        IF ReadFails(failAt) THEN Throws(sess) ELSE Answer(sess, "STATEMENT")
      shortcodeCommand == parseShortOrderCommand(input)
      closeIndex       == closeCommandMatch(input)
      AskQuantity(type) ==
        Answer([session EXCEPT !.currentOrder = [type |-> type, quantity |-> 0],
                               !.state = "SELECT_QUANTITY"],
               "HOW_MANY")
  IN
  IF input \in {"menu", "main", "home"}
  THEN Answer([session EXCEPT !.state = "MAIN_MENU"], "MAIN_MENU")
  ELSE IF input \in {"orders", "positions"}
  THEN Answer(session, "ORDERS")
  ELSE IF session.state \in {"MAIN_MENU", "START"} /\ input = "1"
  THEN AskQuantity("BUY")
  ELSE IF session.state \in {"MAIN_MENU", "START"} /\ input = "2"
  THEN AskQuantity("SELL")
  ELSE IF session.state \in {"MAIN_MENU", "START"} /\ input = "3"
  THEN Statement([session EXCEPT !.state = "STATEMENT"])
  ELSE IF session.state \in {"MAIN_MENU", "START"} /\ input = "4"
  THEN Answer(session, "ORDERS")
  ELSE IF session.state \in {"MAIN_MENU", "START"} /\ input = "5"
  THEN Answer(session, "BALANCE")
  ELSE IF shortcodeCommand # NoShortOrder
  THEN
    IF ~checkSufficientBalance(s, session.accountId, shortcodeCommand.volume).success
    THEN Answer(session, "INSUFFICIENT_BALANCE")
    ELSE Answer([session EXCEPT
                   !.currentOrder = [type |-> shortcodeCommand.action,
                                     quantity |-> shortcodeCommand.volume],
                   !.state = "CONFIRM_ORDER"],
                "ORDER_SUMMARY")
  ELSE IF closeIndex # 0
  THEN
    LET openOrders == OpenOrdersOf(s, session.accountId)
        (* newest first: the order at the 1-based index *)
        atIndex == {o \in openOrders :
                      Cardinality({x \in openOrders : x > o}) = closeIndex - 1}
    IN  IF atIndex = {}
        THEN Answer(session, "INVALID_ORDER_NUMBER")
        ELSE Helped(session, "ORDER_CLOSED", "CLOSE_FAILED",
                    processOrderClose(s, session, CHOOSE o \in atIndex : TRUE,
                                      quote, failAt))
  ELSE
    CASE session.state = "START" ->
           Answer([session EXCEPT !.state = "MAIN_MENU"], "MAIN_MENU")
      [] session.state = "MAIN_MENU" ->
           (* includes("buy"), includes("sell"), includes("statement"), ... *)
           Answer(session, "MAIN_MENU")
      [] session.state = "SELECT_QUANTITY" ->
           LET quantity == ParseFloat(input)
           IN  IF quantity > 0
               THEN IF ~checkSufficientBalance(s, session.accountId, quantity).success
                    THEN Answer(session, "INSUFFICIENT_BALANCE")
                    ELSE Answer([session EXCEPT !.currentOrder.quantity = quantity,
                                                !.state = "CONFIRM_ORDER"],
                                "ORDER_SUMMARY")
               ELSE Answer(session, "ENTER_VALID_QUANTITY")
      [] session.state = "CONFIRM_ORDER" ->
           IF Confirms(input)
           THEN Helped([session EXCEPT !.state = "MAIN_MENU"],
                       "TRADE_SUCCESSFUL", "ORDER_FAILED",
                       processOrderPlacement(s, session,
                                session.currentOrder.quantity,
                                session.currentOrder.type, quote, orderNo, failAt))
           ELSE IF Declines(input)
           THEN Answer([session EXCEPT !.state = "MAIN_MENU"], "ORDER_CANCELLED")
           ELSE Answer(session, "REPLY_Y_OR_N")
      [] OTHER ->
           (* STATEMENT and any other state *)
           Answer([session EXCEPT !.state = "MAIN_MENU"], "MAIN_MENU")

(* handleWhatsAppWebhook(req, res): authorization, session, special     *)
(* commands, then processUserInput; the reply goes out as TwiML.        *)
handleWhatsAppWebhook(s, ss, From, Body, quote, orderNo, failAt) ==
  LET authResult == isAuthorizedUser(From) IN
  IF ~authResult.isAuthorized
  THEN [sessions |-> ss, store |-> s, status |-> 200, reply |-> "ACCESS_DENIED",
        engine |-> <<>>]
  ELSE
    LET userSession == [getUserSession(ss, From) EXCEPT
                          !.accountId = authResult.accountId]
        Done(sess, store, reply, engine) ==
          [sessions |-> (From :> sess) @@ ss, store |-> store, status |-> 200,
           reply |-> reply, engine |-> engine]
        (* catch: res.status(500).send("Error processing WhatsApp webhook") *)
        Caught(sess, store) ==
          [sessions |-> (From :> sess) @@ ss, store |-> store, status |-> 500,
           reply |-> "", engine |-> <<>>]
        Processed(r) ==
          IF r.thrown THEN Caught(r.session, r.store)
          ELSE Done(r.session, r.store, r.reply, r.engine)
    IN
    CASE Body = "reset" ->
           [sessions |-> resetSession(ss, From), store |-> s, status |-> 200,
            reply |-> "MAIN_MENU", engine |-> <<>>]
      [] Body \in {"hi", "hello", "start"} ->
           Done([userSession EXCEPT !.state = "MAIN_MENU"], s, "HELLO", <<>>)
      [] Body = "cancel" ->
           Done([userSession EXCEPT !.state = "MAIN_MENU"], s,
                IF userSession.state = "CONFIRM_ORDER" THEN "ORDER_CANCELLED"
                                                       ELSE "NOTHING_TO_CANCEL",
                <<>>)
      [] Body \in {"balance", "5"} ->
           Done(userSession, s, "BALANCE", <<>>)
      [] Body \in {"price", "prices"} ->
           Done(userSession, s, "PRICES", <<>>)
      [] Body \in {"orders", "positions", "4"} ->
           Done(userSession, s, "ORDERS", <<>>)
      [] Body = "refresh" ->
           Done(userSession, s, "REFRESHING", <<>>)
      [] Body \in {"menu", "help"} ->
           Done([userSession EXCEPT !.state = "MAIN_MENU"], s, "MAIN_MENU", <<>>)
      [] OTHER ->
           Processed(processUserInput(s, userSession, Body, quote, orderNo, failAt))

(* The chat channel's deployment: the account of phone p1 is funded *)
ChatInit ==
  /\ accounts = ("u1" :> [NewAccount(500, 250, "a1") EXCEPT !.AMOUNTFC = 500000000])
                @@ ("u2" :> NewAccount(0, 0, "a2"))
  /\ orders = <<>>
  /\ lps = <<>>
  /\ ledger = <<>>
  /\ txns = <<>>
  /\ requests = <<>>
  /\ last = [op |-> "none", ok |-> TRUE]
  /\ nCommits = 0
  /\ sessions = <<>>
  /\ chat = NoChat
  /\ calls = NoCalls
  /\ mt5 = NewMT5Service
  /\ md = NewMarketDataService
  /\ balanceCheck = NoBalanceCheck
  /\ bridge = NewBridge
  /\ poller = NewPoller

(* The state a webhook call leaves: the session map, the stores and the *)
(* response sent to the provider                                        *)
Respond(MessageSid, From, Body, duplicate, r) ==
  /\ sessions' = r.sessions
  /\ accounts' = r.store.accounts
  /\ orders' = r.store.orders
  /\ lps' = r.store.lps
  /\ ledger' = r.store.ledger
  /\ txns' = r.store.txns
  /\ chat' = [n |-> chat.n + 1, sid |-> MessageSid, from |-> From,
              body |-> Body, duplicate |-> duplicate,
              status |-> r.status, reply |-> r.reply, engine |-> r.engine]
  /\ UNCHANGED <<requests, last, nCommits, calls, mt5, md, balanceCheck,
                 bridge, poller>>

(* One POST of the messaging provider to the webhook. The provider      *)
(* delivers a message once, or again under the same MessageSid when it  *)
(* retries: a redelivery carries the From and Body of the delivery      *)
(* before it.                                                           *)
Webhook ==
  /\ chat.n < MaxDeliveries
  /\ \E duplicate \in {d \in BOOLEAN : d => chat.n > 0},
        From \in Phones, Body \in Bodies, quote \in Quotes, failAt \in FailPoints :
       /\ duplicate => (From = chat.from /\ Body = chat.body)
       /\ Respond(IF duplicate THEN chat.sid ELSE chat.sid + 1, From, Body, duplicate,
                  handleWhatsAppWebhook(Store, sessions, From, Body, quote,
                                        Cardinality(DOMAIN orders) + 1, failAt))

ChatNext == Webhook

ChatSpec == ChatInit /\ [][ChatNext]_vars

----------------------------------------------------------------------------
(* Engine calls that overlap in time. createTrade and updateTradeStatus  *)
(* each run in one database transaction of their own session: the        *)
(* account is read in the session, the new balances are computed from    *)
(* what was read, and every write goes through the session.              *)

MaxCalls == 3

(* The calls the admin surface makes on account u1 *)
ConcurrentTrades ==
  { [type |-> "BUY",  volume |-> 1000, price |-> 10000, requiredMargin |-> Some(19030000)],
    [type |-> "SELL", volume |-> 12,   price |-> 10000, requiredMargin |-> None] }

CallRequests(s, i) ==
  { [op |-> "createTrade", adminId |-> "a1", userId |-> "u1", orderId |-> i,
     tradeData |-> [orderNo |-> i, type |-> req.type, volume |-> req.volume,
                    symbol |-> "GOLD", price |-> req.price,
                    requiredMargin |-> req.requiredMargin],
     updateData |-> NoUpdate] : req \in ConcurrentTrades }
  \cup
  { [op |-> "updateTradeStatus", adminId |-> "a1", userId |-> "u1", orderId |-> o,
     tradeData |-> <<>>,
     updateData |-> [NoUpdate EXCEPT !.orderStatus = "CLOSED",
                                     !.closingPrice = Some(10504)]] :
       o \in {x \in DOMAIN s.orders : s.orders[x].orderStatus = "PROCESSING"} }

(* The body of a call, run on the store its transaction sees *)
RunCall(call, s, failAt) ==
  IF call.op = "createTrade"
  THEN createTrade(s, call.adminId, call.userId, call.tradeData, failAt)
  ELSE updateTradeStatus(s, call.adminId, call.orderId, call.updateData, failAt)

(* The documents a transaction has written: those its store holds and *)
(* its snapshot does not                                              *)
WrittenKeys(before, after) ==
  {k \in DOMAIN after : k \notin DOMAIN before \/ after[k] # before[k]}

(* A storage layer that lets every write of a transaction through *)
NoConflict(c, i, staged) == FALSE

(* The write conflict of the database's transactions: a transaction's  *)
(* write fails when the document was committed by another transaction  *)
(* after this transaction's snapshot, or is written by a transaction   *)
(* that has not ended yet.                                             *)
WriteConflict(c, i, staged) ==
  LET call == c.txn[i]
      mine(coll) == WrittenKeys(call.snapshot[coll], staged[coll])
      theirs(j, coll) == WrittenKeys(c.txn[j].snapshot[coll], c.txn[j].staged[coll])
  IN  \/ \E u \in mine("accounts") : c.version[u] # call.seen[u]
      \/ \E coll \in {"orders", "lps"} : \E k \in mine(coll) :
            \/ (k \in DOMAIN Store[coll]) # (k \in DOMAIN call.snapshot[coll])
            \/ k \in DOMAIN Store[coll] /\ Store[coll][k] # call.snapshot[coll][k]
      \/ \E j \in DOMAIN c.txn : \E coll \in {"accounts", "orders", "lps"} :
            /\ j # i
            /\ c.txn[j].pc = "written"
            /\ mine(coll) \cap theirs(j, coll) # {}

(* session.startTransaction() and the first read: the transaction's *)
(* snapshot of the database                                         *)
BeginCall ==
  /\ Len(calls.txn) < MaxCalls
  /\ \E call \in CallRequests(Store, Len(calls.txn) + 1) :
       calls' = [calls EXCEPT !.txn = Append(@,
                   call @@ [pc |-> "read", snapshot |-> Store, seen |-> calls.version,
                            staged |-> Store, error |-> ""])]
  /\ UNCHANGED <<accounts, orders, lps, ledger, txns, requests, last, nCommits,
                 sessions, chat, mt5, md, balanceCheck,
                 bridge, poller>>

(* What the writes of a call lead to: held in the session until commit, *)
(* or the call aborts and throws                                        *)
Written(i, r) ==
  calls' = [calls EXCEPT !.txn[i] =
     IF ~r.ok
     THEN [@ EXCEPT !.pc = "aborted", !.error = r.error]
     ELSE IF WriteConflict(calls, i, r.store)
     THEN [@ EXCEPT !.pc = "aborted", !.error = "WriteConflict"]
     ELSE [@ EXCEPT !.pc = "written", !.staged = r.store]]

(* The saves and findByIdAndUpdate of a call, all with { session } *)
WriteCall ==
  /\ \E i \in DOMAIN calls.txn : \E failAt \in {0, 2} :
       /\ calls.txn[i].pc = "read"
       /\ Written(i, RunCall(calls.txn[i], calls.txn[i].snapshot, failAt))
  /\ UNCHANGED <<accounts, orders, lps, ledger, txns, requests, last, nCommits,
                 sessions, chat, mt5, md, balanceCheck,
                 bridge, poller>>

(* The documents of a collection after a transaction's writes are in *)
Installed(current, before, after) ==
  [k \in DOMAIN current \cup WrittenKeys(before, after) |->
     IF k \in WrittenKeys(before, after) THEN after[k] ELSE current[k]]

(* session.commitTransaction() *)
CommitCall ==
  /\ \E i \in DOMAIN calls.txn :
       LET call == calls.txn[i] IN
       /\ call.pc = "written"
       /\ accounts' = Installed(accounts, call.snapshot.accounts, call.staged.accounts)
       /\ orders' = Installed(orders, call.snapshot.orders, call.staged.orders)
       /\ lps' = Installed(lps, call.snapshot.lps, call.staged.lps)
       /\ ledger' = ledger \o SubSeq(call.staged.ledger, Len(call.snapshot.ledger) + 1,
                                     Len(call.staged.ledger))
       /\ calls' = [calls EXCEPT
             !.txn[i].pc = "committed",
             !.version = [u \in DOMAIN @ |->
                 IF u \in WrittenKeys(call.snapshot.accounts, call.staged.accounts)
                 THEN @[u] + 1 ELSE @[u]]]
  /\ UNCHANGED <<txns, requests, last, nCommits, sessions, chat, mt5, md, balanceCheck,
                 bridge, poller>>

ConcurrentInit == ChatInit

ConcurrentNext == BeginCall \/ WriteCall \/ CommitCall

ConcurrentSpec == ConcurrentInit /\ [][ConcurrentNext]_vars

----------------------------------------------------------------------------
(* The MT5 bridge: src/unnamed/part_001 (class MT5Service)                 *)
(*                                                                         *)
(* An error message is a sequence of words; a number inside a message is   *)
(* the word of its digits, so the regular expressions of the catch blocks  *)
(* are matches on words.                                                   *)

(* The clock of the bridge (Date.now(), milliseconds) advances by TickMs, *)
(* MaxTicks times at most                                                 *)
MaxTicks == 3
TickMs == 7500

(* isPriceFresh(symbol, maxAge = 5000) *)
DefaultMaxAge == 5000

maxRetries == 3

Digits ==
  {"10009", "10013", "10017", "10018", "10019", "10020", "10021", "10022",
   "10027", "99999", "7001"}

(* message.includes(words) *)
Includes(message, words) ==
  \E i \in 0..(Len(message) - Len(words)) :
    \A j \in 1..Len(words) : message[i + j] = words[j]

(* message.match(/<label> (\d+)/)?.[1] : the number after the first label *)
(* that is followed by a number, undefined when there is none             *)
MatchAfter(message, label) ==
  LET hits == {i \in 1..(Len(message) - 1) :
                 message[i] = label /\ message[i + 1] \in Digits}
  IN IF hits = {} THEN Undefined
     ELSE message[(CHOOSE i \in hits : \A j \in hits : i <= j) + 1]

Symbols == {"XAUUSD_TTBAR.Fix", "XAGUSD"}

(* get_price answers of the venue; NoTick: the request is rejected *)
NoTick == [bid |-> 0, ask |-> 0]

Ticks == {[bid |-> 2000, ask |-> 2001], [bid |-> 2010, ask |-> 2012]}

(* validateSymbol: the symbol itself when it is available and tradable,  *)
(* else the first tradable match of findSymbol (any available symbol     *)
(* with "xau" in its name), else it throws (Undefined)                   *)
validateSymbol(symbol, tradable) ==
  IF symbol \in tradable THEN symbol
  ELSE IF "XAUUSD_TTBAR.Fix" \in tradable THEN "XAUUSD_TTBAR.Fix"
  ELSE Undefined

(* getPrice: caches the tick under the validated symbol; throws (ok      *)
(* FALSE, nothing cached) when validateSymbol or get_price fails         *)
getPrice(svc, symbol, tradable, tick) ==
  LET validSymbol == validateSymbol(symbol, tradable)
  IN IF validSymbol = Undefined \/ tick = NoTick
     THEN [ok |-> FALSE, svc |-> svc, symbol |-> validSymbol]
     ELSE [ok |-> TRUE, symbol |-> validSymbol,
           svc |-> [svc EXCEPT !.priceData =
                      (validSymbol :> [bid |-> tick.bid, ask |-> tick.ask,
                                       timestamp |-> svc.now]) @@ @]]

(* The "price_update" handler of setupResponseHandlers *)
onPriceUpdate(svc, symbol, tick) ==
  [svc EXCEPT !.priceData = (symbol :> [bid |-> tick.bid, ask |-> tick.ask,
                                        timestamp |-> svc.now]) @@ @,
              !.lastPriceUpdate = (symbol :> svc.now) @@ @]

(* isPriceFresh(symbol, maxAge) *)
isPriceFresh(svc, symbol, maxAge) ==
  /\ symbol \in DOMAIN svc.lastPriceUpdate
  /\ svc.lastPriceUpdate[symbol] # 0
  /\ svc.now - svc.lastPriceUpdate[symbol] < maxAge

(* testConnection: success only on a connected bridge whose getPrice of  *)
(* XAUUSD_TTBAR.Fix succeeds; it never throws                            *)
testConnection(svc, tick) ==
  IF ~svc.isConnected THEN [success |-> FALSE, svc |-> svc]
  ELSE LET price == getPrice(svc, "XAUUSD_TTBAR.Fix", Symbols, tick)
       IN [success |-> price.ok, svc |-> price.svc]

(* The venue's answers to the rest of placeTrade's try block: the        *)
(* request place_trade was sent or not, and the Error thrown, None on    *)
(* success.                                                              *)
PlaceReplies ==
  {[sent |-> TRUE, error |-> None],
   [sent |-> TRUE, error |-> <<"Order", "failed", "Code:", "10020">>],
   [sent |-> TRUE, error |-> <<"Order", "failed", "Code:", "10021">>],
   [sent |-> TRUE, error |-> <<"Order", "failed", "Code:", "10018">>],
   [sent |-> TRUE, error |-> <<"Order", "failed", "Code:", "10019">>],
   [sent |-> TRUE, error |-> <<"Order", "failed", "Code:", "99999">>],
   [sent |-> TRUE, error |-> <<"Request", "timeout">>],
   [sent |-> FALSE, error |-> <<"Symbol", "XAUUSD_TTBAR.Fix", "is", "not", "tradable">>]}

(* try block of placeTrade: the connection test first, then the venue    *)
placeTradeTry(test, reply) ==
  IF ~test.success
  THEN [sent |-> FALSE, error |-> <<"MT5", "connection", "test", "failed">>]
  ELSE reply

(* catch block of placeTrade: errorCode *)
PlaceErrorCode(message) == MatchAfter(message, "Code:")

(* catch block of placeTrade: errorMessage *)
PlaceErrorMessage(message) ==
  LET errorCode == PlaceErrorCode(message)
  IN IF errorCode # Undefined
     THEN CASE errorCode = "10018" -> <<"Market", "closed">>
            [] errorCode = "10019" -> <<"Insufficient", "funds">>
            [] errorCode = "10020" -> <<"Prices", "changed">>
            [] errorCode = "10021" -> <<"Invalid", "request">>
            [] errorCode = "10022" -> <<"Invalid", "SL/TP">>
            [] errorCode = "10017" -> <<"Invalid", "parameters">>
            [] errorCode = "10027" -> <<"AutoTrading", "disabled">>
            [] OTHER -> <<"Unknown", "error">>
     ELSE IF Includes(message, <<"connection">>)
          THEN <<"MT5", "connection", "issue">>
          ELSE message

(* A catch block that retries whatever the error code is *)
RetryAnyCode(errorCode, retryCount) ==
  errorCode # Undefined /\ retryCount < maxRetries

(* catch block of placeTrade: the condition of the retry *)
ShouldRetryPlace(errorCode, retryCount) ==
  (errorCode = "10020" \/ errorCode = "10021") /\ retryCount < maxRetries

(* One run of placeTrade(tradeData, retryCount): the try block, then the  *)
(* return, the recursive call or the throw of the catch block             *)
placeTradeRun(call, outcome) ==
  LET history == Append(call.history, outcome)
  IN IF outcome.error = None
     THEN [call EXCEPT !.pc = "done", !.history = history,
                       !.result = [success |-> TRUE, error |-> None]]
     ELSE IF ShouldRetryPlace(PlaceErrorCode(outcome.error), call.retryCount)
          THEN [call EXCEPT !.history = history,
                            !.retryCount = call.retryCount + 1,
                            !.deviation =
                              (IF call.deviation = 0 THEN 20 ELSE call.deviation) + 10]
          ELSE [call EXCEPT !.pc = "done", !.history = history,
                            !.result = [success |-> FALSE,
                                        error |-> PlaceErrorMessage(outcome.error)]]

placeTrade(svc, tick, reply) ==
  LET test == testConnection(svc, tick)
  IN [test.svc EXCEPT !.place = placeTradeRun(svc.place, placeTradeTry(test, reply))]

(* connect() succeeded; the child process closed *)
Connect ==
  /\ ~mt5.isConnected
  /\ mt5' = [mt5 EXCEPT !.isConnected = TRUE]
  /\ UNCHANGED <<accounts, orders, lps, ledger, txns, requests, last, nCommits,
                 sessions, chat, calls, md, balanceCheck,
                 bridge, poller>>

Disconnect ==
  /\ mt5.isConnected
  /\ mt5' = [mt5 EXCEPT !.isConnected = FALSE]
  /\ UNCHANGED <<accounts, orders, lps, ledger, txns, requests, last, nCommits,
                 sessions, chat, calls, md, balanceCheck,
                 bridge, poller>>

(* A caller calls placeTrade(tradeData): retryCount defaults to 0 *)
PlaceTrade ==
  /\ mt5.place.pc # "running"
  /\ mt5' = [mt5 EXCEPT !.place = [NoPlaceCall EXCEPT !.pc = "running"]]
  /\ UNCHANGED <<accounts, orders, lps, ledger, txns, requests, last, nCommits,
                 sessions, chat, calls, md, balanceCheck,
                 bridge, poller>>

(* The running call goes through placeTrade once more *)
PlaceAttempt ==
  /\ mt5.place.pc = "running"
  /\ \E reply \in PlaceReplies, tick \in Ticks \cup {NoTick} :
       mt5' = placeTrade(mt5, tick, reply)
  /\ UNCHANGED <<accounts, orders, lps, ledger, txns, requests, last, nCommits,
                 sessions, chat, calls, md, balanceCheck,
                 bridge, poller>>

PlaceNext == Connect \/ Disconnect \/ PlaceTrade \/ PlaceAttempt

(* The bridge under placeTrade calls *)
PlaceSpec == Init /\ [][PlaceNext]_vars

(* Every await of placeTrade settles: sendCommand arms a timer of its own *)
(* and the back-off is a timer, so a running call always goes on          *)
FairPlaceSpec == PlaceSpec /\ WF_vars(PlaceAttempt)

(* closeTrade *)

(* tradeData.ticket of a call: a ticket number, or none *)
Tickets == {"7001", Undefined}

PositionNotFound == <<"Position", "not", "found">>

(* One answer of the venue to a run of closeTrade's try block.           *)
(*   position : the ticket is in the list of get_positions               *)
(*   tick     : the answer to get_price, NoTick when it is rejected      *)
(*   rejected : the Error of a rejected request, None when none is;      *)
(*              stage tells which: "early" (validateSymbol,              *)
(*              getSymbolInfo, getPositions) or "close" (close_trade)    *)
(*   retcode, error : fields of the resolved close_trade result, when    *)
(*              it has them                                               *)
CloseReply(position, tick, stage, rejected, retcode, error) ==
  [position |-> position, tick |-> tick, stage |-> stage, rejected |-> rejected,
   retcode |-> retcode, error |-> error]

Resolved(position, retcode, error) ==
  {CloseReply(position, tick, "none", None, retcode, error) : tick \in Ticks}

RejectedAt(stage, message) ==
  {CloseReply(position, tick, stage, message, Undefined, None) :
     position \in BOOLEAN, tick \in Ticks}

CloseReplies ==
  Resolved(TRUE, "10009", None) \cup Resolved(FALSE, "10009", None)
  \cup Resolved(TRUE, "10021", None) \cup Resolved(TRUE, "10018", None)
  \cup Resolved(FALSE, "10013", None)
  \cup Resolved(FALSE, Undefined, PositionNotFound)
  \cup Resolved(FALSE, Undefined, <<"Close", "failed:", "Position", "not", "found">>)
  \cup RejectedAt("close", PositionNotFound)
  \cup RejectedAt("close", <<"Position", "7001", "not", "found">>)
  \cup RejectedAt("close", <<"Request", "timeout">>)
  \cup RejectedAt("early", <<"MT5", "connection", "lost">>)
  \cup RejectedAt("early", <<"Failed", "to", "get", "positions">>)
  \cup {CloseReply(TRUE, NoTick, "none", None, Undefined, None)}

(* `Close failed: Retcode: ${retcode || "Unknown"}` *)
CloseFailed(retcode) ==
  <<"Close", "failed:", "Retcode:", IF retcode = Undefined THEN "Unknown" ELSE retcode>>

(* try block of closeTrade: what it does with the venue's answer. kind is *)
(* "return" (value: the result), "throw" (value: the Error's message) or  *)
(* "retry"; priced tells that getPrice cached the tick.                   *)
closeTradeTry(call, reply) ==
  IF call.ticket = Undefined
  THEN [kind |-> "throw", priced |-> FALSE, value |-> <<"Invalid", "ticket:", "undefined">>]
  ELSE IF reply.stage = "early"
  THEN [kind |-> "throw", priced |-> FALSE, value |-> reply.rejected]
  ELSE IF ~reply.position
  THEN IF reply.stage = "close"
       THEN [kind |-> "throw", priced |-> FALSE, value |-> reply.rejected]
       ELSE IF reply.retcode = "10009"
       THEN [kind |-> "return", priced |-> FALSE,
             value |-> [success |-> TRUE, error |-> None, likelyClosed |-> FALSE]]
       ELSE IF reply.error # None /\ Includes(reply.error, PositionNotFound)
       THEN [kind |-> "return", priced |-> FALSE,
             value |-> [success |-> FALSE,
                        error |-> <<"Position", call.ticket, "not", "found", "in", "MT5">>,
                        likelyClosed |-> TRUE]]
       ELSE [kind |-> "throw", priced |-> FALSE,
             value |-> IF reply.error # None THEN reply.error
                       ELSE CloseFailed(reply.retcode)]
  ELSE IF reply.tick = NoTick
  THEN [kind |-> "throw", priced |-> FALSE, value |-> <<"Request", "timeout">>]
  ELSE IF reply.stage = "close"
  THEN [kind |-> "throw", priced |-> TRUE, value |-> reply.rejected]
  ELSE IF reply.retcode = "10009"
  THEN [kind |-> "return", priced |-> TRUE,
        value |-> [success |-> TRUE, error |-> None, likelyClosed |-> FALSE]]
  ELSE IF Includes(CloseFailed(reply.retcode), <<"10021">>) /\ call.retryCount < maxRetries
  THEN [kind |-> "retry", priced |-> TRUE, value |-> None]
  ELSE [kind |-> "throw", priced |-> TRUE, value |-> CloseFailed(reply.retcode)]

(* word.match(/-?\d+/)?.[0] for the words that occur in the messages *)
NumberIn(word) ==
  IF word \in Digits \cup {"-2"} THEN word
  ELSE IF word = "MT5" THEN "5"
  ELSE Undefined

(* message.match(/-?\d+/)?.[0] *)
FirstNumber(message) ==
  LET hits == {i \in 1..Len(message) : NumberIn(message[i]) # Undefined}
  IN IF hits = {} THEN Undefined
     ELSE NumberIn(message[CHOOSE i \in hits : \A j \in hits : i <= j])

(* catch block of closeTrade: errorCode *)
CloseErrorCode(message) ==
  IF MatchAfter(message, "Retcode:") # Undefined
  THEN MatchAfter(message, "Retcode:")
  ELSE FirstNumber(message)

(* catch block of closeTrade: errorMessage *)
CloseErrorMessage(message, ticket) ==
  LET errorCode == CloseErrorCode(message)
  IN IF errorCode # Undefined
     THEN CASE errorCode = "10013" -> <<"Requote", "detected">>
            [] errorCode = "10018" -> <<"Market", "closed">>
            [] errorCode = "10019" -> <<"Insufficient", "funds">>
            [] errorCode = "10020" -> <<"Prices", "changed">>
            [] errorCode = "10021" -> <<"Invalid", "request">>
            [] errorCode = "10022" -> <<"Invalid", "SL/TP">>
            [] errorCode = "10017" -> <<"Invalid", "parameters">>
            [] errorCode = "10027" -> <<"AutoTrading", "disabled">>
            [] errorCode = "-2" -> <<"Invalid", "volume", "argument">>
            [] OTHER -> <<"Unknown", "error:">> \o message
     ELSE IF Includes(message, <<"connection">>)
          THEN <<"MT5", "connection", "issue">>
          ELSE IF Includes(message, PositionNotFound)
               THEN <<"Position", ticket, "not", "found", "in", "MT5">>
               ELSE message

(* catch block of closeTrade: the result it returns *)
closeTradeCatch(message, ticket) ==
  LET errorMessage == CloseErrorMessage(message, ticket)
  IN [success |-> FALSE, error |-> errorMessage,
      likelyClosed |-> Includes(errorMessage, PositionNotFound)]

(* One run of closeTrade(tradeData, retryCount) *)
closeTradeRun(call, reply, outcome) ==
  LET history == Append(call.history, reply)
  IN CASE outcome.kind = "return" ->
            [call EXCEPT !.pc = "done", !.history = history, !.result = outcome.value]
       [] outcome.kind = "retry" ->
            [call EXCEPT !.history = history, !.retryCount = call.retryCount + 1]
       [] outcome.kind = "throw" ->
            [call EXCEPT !.pc = "done", !.history = history,
                         !.result = closeTradeCatch(outcome.value, call.ticket)]

Priced(svc, reply, outcome) ==
  IF outcome.priced
  THEN getPrice(svc, "XAUUSD_TTBAR.Fix", Symbols, reply.tick).svc
  ELSE svc

closeTrade(svc, reply) ==
  [Priced(svc, reply, closeTradeTry(svc.close, reply)) EXCEPT
     !.close = closeTradeRun(svc.close, reply, closeTradeTry(svc.close, reply))]

(* A caller calls closeTrade(tradeData): retryCount defaults to 0 *)
CloseTradeCall ==
  /\ mt5.close.pc # "running"
  /\ \E ticket \in Tickets :
       mt5' = [mt5 EXCEPT !.close = [NoCloseCall EXCEPT !.pc = "running",
                                                        !.ticket = ticket]]
  /\ UNCHANGED <<accounts, orders, lps, ledger, txns, requests, last, nCommits,
                 sessions, chat, calls, md, balanceCheck,
                 bridge, poller>>

(* The running call goes through closeTrade once more *)
CloseAttempt ==
  /\ mt5.close.pc = "running"
  /\ \E reply \in CloseReplies : mt5' = closeTrade(mt5, reply)
  /\ UNCHANGED <<accounts, orders, lps, ledger, txns, requests, last, nCommits,
                 sessions, chat, calls, md, balanceCheck,
                 bridge, poller>>

CloseNext == Connect \/ Disconnect \/ CloseTradeCall \/ CloseAttempt

(* The bridge under closeTrade calls *)
CloseSpec == Init /\ [][CloseNext]_vars

(* Prices *)

(* Time passes *)
Tick ==
  /\ mt5.now < 1 + MaxTicks * TickMs
  /\ mt5' = [mt5 EXCEPT !.now = @ + TickMs]
  /\ UNCHANGED <<accounts, orders, lps, ledger, txns, requests, last, nCommits,
                 sessions, chat, calls, md, balanceCheck,
                 bridge, poller>>

(* The child process pushes a "price_update" line *)
PriceUpdate ==
  /\ mt5.isConnected
  /\ \E symbol \in Symbols, tick \in Ticks : mt5' = onPriceUpdate(mt5, symbol, tick)
  /\ UNCHANGED <<accounts, orders, lps, ledger, txns, requests, last, nCommits,
                 sessions, chat, calls, md, balanceCheck,
                 bridge, poller>>

(* A caller calls getPrice(symbol) *)
GetPrice ==
  /\ \E symbol \in Symbols, tradable \in SUBSET Symbols, tick \in Ticks \cup {NoTick} :
       mt5' = getPrice(mt5, symbol, tradable, tick).svc
  /\ UNCHANGED <<accounts, orders, lps, ledger, txns, requests, last, nCommits,
                 sessions, chat, calls, md, balanceCheck,
                 bridge, poller>>

PriceNext == Connect \/ Disconnect \/ Tick \/ PriceUpdate \/ GetPrice

(* The bridge under price requests and price pushes *)
PriceSpec == Init /\ [][PriceNext]_vars

----------------------------------------------------------------------------
(* The market data service: src/services/Trading/mt5MarketDataService.js   *)

PRICE_CACHE_TTL == 15000

(* this.symbolMapping[symbol] || symbol *)
symbolMapping(symbol) == IF symbol = "GOLD" THEN "XAUUSD_TTBAR.Fix" ELSE symbol

(* getCachedPrice(symbol) *)
getCachedPrice(svc, symbol) ==
  IF symbol \in DOMAIN svc.priceData THEN svc.priceData[symbol] ELSE NoData

(* The value getMarketData returns: null, or the tick in data with the    *)
(* freshness of the bridge's cache at the time of the return              *)
MarketData(svc, mapped, data) ==
  IF data = NoData THEN [null |-> TRUE, bid |-> 0, ask |-> 0, isFresh |-> FALSE]
  ELSE [null |-> FALSE, bid |-> data.bid, ask |-> data.ask,
        isFresh |-> isPriceFresh(svc, mapped, PRICE_CACHE_TTL)]

(* getMarketData up to its await: it returns at once on a fresh cached    *)
(* tick, else it waits for forcePriceUpdate                               *)
getMarketDataBegin(svc, symbol) ==
  LET mapped == symbolMapping(symbol)
      data == getCachedPrice(svc, mapped)
  IN IF data = NoData \/ ~isPriceFresh(svc, mapped, PRICE_CACHE_TTL)
     THEN [pc |-> "refreshing", symbol |-> mapped, data |-> data,
           refresh |-> "none", result |-> <<>>]
     ELSE [pc |-> "done", symbol |-> mapped, data |-> data, refresh |-> "none",
           result |-> MarketData(svc, mapped, data)]

(* getMarketData after its await: price is the outcome of getPrice *)
getMarketDataEnd(call, price, tick) ==
  IF price.ok
  THEN [call EXCEPT !.pc = "done", !.refresh = "ok",
                    !.result = MarketData(price.svc, call.symbol,
                                          [bid |-> tick.bid, ask |-> tick.ask,
                                           timestamp |-> price.svc.now])]
  ELSE [call EXCEPT !.pc = "done", !.refresh = "failed",
                    !.result = MarketData(price.svc, call.symbol, call.data)]

(* A caller calls getMarketData(symbol) *)
GetMarketData ==
  /\ md.pc # "refreshing"
  /\ \E symbol \in {"GOLD", "XAUUSD_TTBAR.Fix", "XAGUSD"} :
       md' = getMarketDataBegin(mt5, symbol)
  /\ UNCHANGED <<accounts, orders, lps, ledger, txns, requests, last, nCommits,
                 sessions, chat, calls, mt5, balanceCheck,
                 bridge, poller>>

(* forcePriceUpdate settles: getPrice succeeded or threw *)
RefreshSettles ==
  /\ md.pc = "refreshing"
  /\ \E tradable \in SUBSET Symbols, tick \in Ticks \cup {NoTick} :
       /\ mt5' = getPrice(mt5, md.symbol, tradable, tick).svc
       /\ md' = getMarketDataEnd(md, getPrice(mt5, md.symbol, tradable, tick), tick)
  /\ UNCHANGED <<accounts, orders, lps, ledger, txns, requests, last, nCommits,
                 sessions, chat, calls, balanceCheck,
                 bridge, poller>>

MarketDataNext ==
  Connect \/ Disconnect \/ Tick \/ PriceUpdate \/ GetMarketData \/ RefreshSettles

MarketDataSpec == Init /\ [][MarketDataNext]_vars

----------------------------------------------------------------------------
(* The balance policy on its own: src/services/market/balanceService.js    *)

(* Balances of the account, in millionths *)
BalanceInputs == {0, 100000000, 250000000, 500000000}

(* Orders the account may have: open ones of 1 and of 0.5, a closed one,  *)
(* and an open one of another account                                     *)
OrderInput(orderNo, userId, volume, orderStatus) ==
  [NewOrder(getAdminUser, userId,
            [orderNo |-> orderNo, type |-> "BUY", volume |-> volume,
             symbol |-> "GOLD", price |-> 1000], 1000)
     EXCEPT !.orderStatus = orderStatus]

OrderInputs ==
  (1 :> OrderInput(1, "u1", 1000, "PROCESSING"))
  @@ (2 :> OrderInput(2, "u1", 500, "PROCESSING"))
  @@ (3 :> OrderInput(3, "u1", 1000, "CLOSED"))
  @@ (4 :> OrderInput(4, "u2", 1000, "PROCESSING"))

MaxVolume == 3

BalanceInit ==
  /\ \E cash \in BalanceInputs :
       accounts = ("u1" :> [NewAccount(0, 0, "a1") EXCEPT !.AMOUNTFC = cash])
                  @@ ("u2" :> NewAccount(0, 0, "a2"))
  /\ \E os \in SUBSET DOMAIN OrderInputs : orders = [o \in os |-> OrderInputs[o]]
  /\ lps = <<>>
  /\ ledger = <<>>
  /\ txns = <<>>
  /\ requests = <<>>
  /\ last = [op |-> "none", ok |-> TRUE]
  /\ nCommits = 0
  /\ sessions = <<>>
  /\ chat = NoChat
  /\ calls = NoCalls
  /\ mt5 = NewMT5Service
  /\ md = NewMarketDataService
  /\ balanceCheck = NoBalanceCheck
  /\ bridge = NewBridge
  /\ poller = NewPoller

(* A caller calls checkSufficientBalance(accountId, volume) *)
CheckBalance ==
  /\ \E accountId \in Users, volume \in 0..MaxVolume :
       balanceCheck' = [accountId |-> accountId, volume |-> volume,
                        result |-> checkSufficientBalance(Store, accountId, volume)]
  /\ UNCHANGED <<accounts, orders, lps, ledger, txns, requests, last, nCommits,
                 sessions, chat, calls, mt5, md,
                 bridge, poller>>

BalanceSpec == BalanceInit /\ [][CheckBalance]_vars

----------------------------------------------------------------------------
(* The bridge's transport: sendCommand and handlePythonResponse of         *)
(* src/unnamed/part_001                                                    *)

MaxRequests == 3
MaxBridgeTicks == 3
BridgeTickMs == 15000

(* sendCommand(command, timeout = 30000); placeTrade and closeTrade pass   *)
(* 45000                                                                   *)
DefaultTimeout == 30000
TradeTimeout == 45000

(* resolve or reject of a request's promise: the first call settles it,    *)
(* a later call leaves it as it is. settles counts the calls.              *)
Settle(req, outcome, by, responseId) ==
  IF req.promise = "pending"
  THEN [req EXCEPT !.settles = @ + 1, !.promise = outcome, !.by = by,
                   !.response = responseId]
  ELSE [req EXCEPT !.settles = @ + 1]

(* The place in sent of the request that got requestId *)
RequestOf(b, requestId) == CHOOSE i \in DOMAIN b.sent : b.sent[i].id = requestId

(* sendCommand: without a child process the promise is rejected and the    *)
(* executor goes on, so the id is taken, the callback registered and the   *)
(* timer set before stdin.write throws on the null process                 *)
sendCommand(b, timeout) ==
  LET requestId == b.requestId + 1
      req == [id |-> requestId, timeout |-> timeout, sentAt |-> b.now,
              timer |-> TRUE, promise |-> "pending", by |-> "none",
              settles |-> 0, response |-> 0, written |-> b.pythonProcess]
  IN [b EXCEPT !.requestId = requestId,
               !.responseCallbacks = @ \cup {requestId},
               !.sent = Append(@, IF b.pythonProcess THEN req
                                  ELSE Settle(req, "rejected", "uninitialized", 0))]

(* disconnect() after its awaited sendCommand settled either way: the      *)
(* child process is killed and forgotten                                   *)
disconnectEnd(b, requestId) ==
  IF requestId = b.disconnecting
  THEN [b EXCEPT !.pythonProcess = FALSE, !.disconnecting = 0]
  ELSE b

(* handlePythonResponse on one line {requestId, success}: the callback of  *)
(* a registered id is taken out of the map and called, any other line is   *)
(* dropped                                                                 *)
handlePythonResponse(b, response) ==
  IF response.requestId # 0 /\ response.requestId \in b.responseCallbacks
  THEN LET i == RequestOf(b, response.requestId)
           outcome == IF response.success THEN "resolved" ELSE "rejected"
       IN disconnectEnd(
            [b EXCEPT !.responseCallbacks = @ \ {response.requestId},
                      !.sent[i] = Settle(@, outcome, "response", response.requestId)],
            response.requestId)
  ELSE b

(* The setTimeout callback of request i: it evicts and rejects a request   *)
(* that is still registered                                                *)
onTimeout(b, i) ==
  LET requestId == b.sent[i].id
      fired == [b EXCEPT !.sent[i].timer = FALSE]
  IN IF requestId \in b.responseCallbacks
     THEN disconnectEnd(
            [fired EXCEPT !.responseCallbacks = @ \ {requestId},
                          !.sent[i] = Settle(@, "rejected", "timeout", 0)],
            requestId)
     ELSE fired

(* Some method of the service sends a command *)
SendCommand ==
  /\ bridge.requestId < MaxRequests
  /\ \E timeout \in {DefaultTimeout, TradeTimeout} :
       bridge' = sendCommand(bridge, timeout)
  /\ UNCHANGED <<accounts, orders, lps, ledger, txns, requests, last, nCommits,
                 sessions, chat, calls, mt5, md, balanceCheck, poller>>

(* disconnect() up to its await *)
BridgeDisconnect ==
  /\ bridge.requestId < MaxRequests
  /\ bridge.pythonProcess
  /\ bridge.disconnecting = 0
  /\ bridge' = [sendCommand(bridge, DefaultTimeout)
                  EXCEPT !.disconnecting = bridge.requestId + 1]
  /\ UNCHANGED <<accounts, orders, lps, ledger, txns, requests, last, nCommits,
                 sessions, chat, calls, mt5, md, balanceCheck, poller>>

(* The child process answers a command it was sent, at any time and any    *)
(* number of times                                                         *)
BridgeResponse ==
  /\ bridge.pythonProcess
  /\ \E i \in DOMAIN bridge.sent, success \in BOOLEAN :
       /\ bridge.sent[i].written
       /\ bridge' = handlePythonResponse(bridge, [requestId |-> bridge.sent[i].id,
                                                  success |-> success])
       /\ bridge' # bridge
  /\ UNCHANGED <<accounts, orders, lps, ledger, txns, requests, last, nCommits,
                 sessions, chat, calls, mt5, md, balanceCheck, poller>>

(* A late or repeated answer: handlePythonResponse runs and changes nothing *)
BridgeLateResponse ==
  /\ bridge.pythonProcess
  /\ \E i \in DOMAIN bridge.sent, success \in BOOLEAN :
       /\ bridge.sent[i].written
       /\ bridge.sent[i].id \notin bridge.responseCallbacks
       /\ bridge' = handlePythonResponse(bridge, [requestId |-> bridge.sent[i].id,
                                                  success |-> success])
  /\ UNCHANGED <<accounts, orders, lps, ledger, txns, requests, last, nCommits,
                 sessions, chat, calls, mt5, md, balanceCheck, poller>>

(* The timer of a request fires once its timeout has passed *)
BridgeTimeout ==
  /\ \E i \in DOMAIN bridge.sent :
       /\ bridge.sent[i].timer
       /\ bridge.now >= bridge.sent[i].sentAt + bridge.sent[i].timeout
       /\ bridge' = onTimeout(bridge, i)
  /\ UNCHANGED <<accounts, orders, lps, ledger, txns, requests, last, nCommits,
                 sessions, chat, calls, mt5, md, balanceCheck, poller>>

(* Time passes *)
BridgeTick ==
  /\ bridge.now < MaxBridgeTicks * BridgeTickMs
  /\ bridge' = [bridge EXCEPT !.now = @ + BridgeTickMs]
  /\ UNCHANGED <<accounts, orders, lps, ledger, txns, requests, last, nCommits,
                 sessions, chat, calls, mt5, md, balanceCheck, poller>>

BridgeNext ==
  \/ SendCommand
  \/ BridgeDisconnect
  \/ BridgeResponse
  \/ BridgeLateResponse
  \/ BridgeTimeout
  \/ BridgeTick

(* The transport under commands, answers and timers *)
BridgeSpec == Init /\ [][BridgeNext]_vars

----------------------------------------------------------------------------
(* The market data poller: startSmartPriceUpdates and its neighbours in    *)
(* src/services/Trading/mt5MarketDataService.js                            *)

Max(a, b) == IF a >= b THEN a ELSE b

(* The delay grown by 1.2 and cut at 30 s, shrunk by 0.8 and held at 5 s   *)
Widened(interval) == IF (interval * 6) \div 5 <= 30000 THEN (interval * 6) \div 5 ELSE 30000
Narrowed(interval) == Max((interval * 4) \div 5, 5000)

(* A timer tick sees no poll running whatever the flag says *)
NeverUpdating(isUpdating) == FALSE

(* if (this.isUpdating) return; *)
PollRunning(isUpdating) == isUpdating

(* this.symbols without those whose price is fresh *)
symbolsToUpdate(svc) ==
  {symbol \in {"XAUUSD_TTBAR.Fix"} :
     ~isPriceFresh(svc, symbolMapping(symbol), PRICE_CACHE_TTL)}

(* The end of the timer callback: catch widens the delay when the body     *)
(* threw, finally lowers the flag                                          *)
pollEnd(p, threw) ==
  [p EXCEPT !.UPDATE_INTERVAL = IF threw THEN Widened(@) ELSE @,
            !.isUpdating = FALSE,
            !.running = @ - 1,
            !.pc = "idle",
            !.startedOn = 0]

(* The timer callback up to its await: nothing while a poll runs; with     *)
(* every price fresh it returns through finally at once; else it waits     *)
(* for processMinimalUpdates                                               *)
pollBegin(p, svc) ==
  IF PollRunning(p.isUpdating) THEN p
  ELSE IF symbolsToUpdate(svc) = {}
       THEN pollEnd([p EXCEPT !.isUpdating = TRUE, !.running = @ + 1,
                              !.startedOn = p.period], FALSE)
       ELSE [p EXCEPT !.isUpdating = TRUE, !.running = @ + 1, !.pc = "fetching",
                      !.startedOn = p.period]

(* processMinimalUpdates after getPrice settled: its own catch takes the   *)
(* error, so it never throws; after a price it pauses for 50 ms. With one  *)
(* symbol the loop ends there.                                             *)
processMinimalUpdates(p, price) ==
  IF price.ok
  THEN [p EXCEPT !.pc = "pausing"]
  ELSE pollEnd(p, FALSE)

(* startSmartPriceUpdates: one interval timer, set with the delay of now   *)
startSmartPriceUpdates(p) ==
  IF p.priceUpdateInterval # 0 THEN p
  ELSE [p EXCEPT !.priceUpdateInterval = 1, !.period = p.UPDATE_INTERVAL]

(* restartPriceUpdates: clearInterval, then a new timer *)
restartPriceUpdates(p) ==
  startSmartPriceUpdates([p EXCEPT !.priceUpdateInterval = 0, !.period = 0])

scaleUp(p) == restartPriceUpdates([p EXCEPT !.UPDATE_INTERVAL = Narrowed(@)])

prepareForScaleDown(p) == restartPriceUpdates([p EXCEPT !.UPDATE_INTERVAL = 30000])

(* The venue's price of the polled symbol *)
PolledTick == [bid |-> 2000, ask |-> 2001]

(* initializeMT5 after connect() succeeded *)
InitializeMT5 ==
  /\ ~mt5.isConnected
  /\ mt5' = [mt5 EXCEPT !.isConnected = TRUE]
  /\ poller' = startSmartPriceUpdates(poller)
  /\ UNCHANGED <<accounts, orders, lps, ledger, txns, requests, last, nCommits,
                 sessions, chat, calls, md, balanceCheck, bridge>>

(* The interval timer fires *)
PollTimerFires ==
  /\ poller.priceUpdateInterval # 0
  /\ poller' = pollBegin(poller, mt5)
  /\ UNCHANGED <<accounts, orders, lps, ledger, txns, requests, last, nCommits,
                 sessions, chat, calls, mt5, md, balanceCheck, bridge>>

(* getPrice of a poll settles: with a price or with an error *)
PollFetchSettles ==
  /\ poller.pc = "fetching"
  /\ \E tick \in {PolledTick, NoTick} :
       LET price == getPrice(mt5, symbolMapping("XAUUSD_TTBAR.Fix"), Symbols, tick)
       IN /\ mt5' = price.svc
          /\ poller' = processMinimalUpdates(poller, price)
  /\ UNCHANGED <<accounts, orders, lps, ledger, txns, requests, last, nCommits,
                 sessions, chat, calls, md, balanceCheck, bridge>>

(* The 50 ms pause of processMinimalUpdates is over: the poll ends *)
PollPauseEnds ==
  /\ poller.pc = "pausing"
  /\ poller' = pollEnd(poller, FALSE)
  /\ UNCHANGED <<accounts, orders, lps, ledger, txns, requests, last, nCommits,
                 sessions, chat, calls, mt5, md, balanceCheck, bridge>>

(* The child process pushes a "price_update" line for the polled symbol *)
PolledPriceUpdate ==
  /\ mt5.isConnected
  /\ mt5' = onPriceUpdate(mt5, "XAUUSD_TTBAR.Fix", PolledTick)
  /\ UNCHANGED <<accounts, orders, lps, ledger, txns, requests, last, nCommits,
                 sessions, chat, calls, md, balanceCheck, bridge, poller>>

(* The first subscriber arrives in auto-scale mode *)
ScaleUp ==
  /\ poller' = scaleUp(poller)
  /\ poller' # poller
  /\ UNCHANGED <<accounts, orders, lps, ledger, txns, requests, last, nCommits,
                 sessions, chat, calls, mt5, md, balanceCheck, bridge>>

(* The inactivity monitor finds no subscriber for five minutes *)
ScaleDown ==
  /\ poller' = prepareForScaleDown(poller)
  /\ poller' # poller
  /\ UNCHANGED <<accounts, orders, lps, ledger, txns, requests, last, nCommits,
                 sessions, chat, calls, mt5, md, balanceCheck, bridge>>

PollNext ==
  \/ InitializeMT5
  \/ PollTimerFires
  \/ PollFetchSettles
  \/ PollPauseEnds
  \/ ScaleUp
  \/ ScaleDown
  \/ Tick
  \/ PolledPriceUpdate

(* The poller next to price pushes and the clock *)
PollSpec == Init /\ [][PollNext]_vars

(* getPrice settles, its request timing out at the latest, and the pause   *)
(* timer fires                                                             *)
FairPollSpec == PollSpec /\ WF_vars(PollFetchSettles) /\ WF_vars(PollPauseEnds)

----------------------------------------------------------------------------
(* Webhook calls that overlap in time. A handler that confirms an order    *)
(* reads the session, then awaits processOrderPlacement; the session is    *)
(* written only after the await, and other handlers run in between.        *)

MaxPlacements == 2
MaxPlainMessages == 3

(* The messages of the registered phone that are answered without a call   *)
(* of the engine                                                           *)
PlainBodies == {"sell 1", "2", "n"}

(* A quote with a price on both sides *)
LiveQuote == [bid |-> 1000, ask |-> 1504]

(* The handler of a confirmation up to the await of createTrade: the       *)
(* createTrade call it makes, with the transaction's snapshot. entered is  *)
(* the number of deliveries answered when the handler read CONFIRM_ORDER.  *)
confirmBegin(s, c, session, From, MessageSid, entered) ==
  LET i == Len(c.txn) + 1
  IN [op |-> "createTrade", adminId |-> getAdminUser, userId |-> session.accountId,
      orderId |-> i,
      tradeData |-> PlacementTradeData(session.currentOrder.quantity,
                                       session.currentOrder.type, LiveQuote, i),
      updateData |-> NoUpdate,
      pc |-> "read", snapshot |-> s, seen |-> c.version, staged |-> s,
      error |-> "", from |-> From, sid |-> MessageSid, entered |-> entered,
      answered |-> FALSE]

(* A message that needs no engine call is handled in one go *)
PlainMessage ==
  /\ chat.n < MaxPlainMessages
  /\ \E Body \in PlainBodies :
       Respond(chat.sid + 1, "p1", Body, FALSE,
               handleWhatsAppWebhook(Store, sessions, "p1", Body, LiveQuote, 0, 0))

(* A confirmation arrives under a new MessageSid while the session is in   *)
(* CONFIRM_ORDER: the handler gets as far as the await of createTrade      *)
ConfirmBegin ==
  /\ Len(calls.txn) < MaxPlacements
  /\ "p1" \in DOMAIN sessions
  /\ sessions["p1"].state = "CONFIRM_ORDER"
  /\ Confirms("y")
  /\ calls' = [calls EXCEPT !.txn =
                 Append(@, confirmBegin(Store, calls, sessions["p1"], "p1",
                                        chat.sid + 1, chat.n))]
  /\ chat' = [chat EXCEPT !.sid = @ + 1]
  /\ UNCHANGED <<accounts, orders, lps, ledger, txns, requests, last, nCommits,
                 sessions, mt5, md, balanceCheck, bridge, poller>>

(* createTrade has returned or thrown: the handler sets MAIN_MENU and      *)
(* answers                                                                 *)
ConfirmEnd ==
  /\ \E i \in DOMAIN calls.txn :
       LET call == calls.txn[i] IN
       /\ call.pc \in {"committed", "aborted"}
       /\ ~call.answered
       /\ calls' = [calls EXCEPT !.txn[i].answered = TRUE]
       /\ sessions' = [sessions EXCEPT ![call.from].state = "MAIN_MENU"]
       /\ chat' = [n |-> chat.n + 1, sid |-> call.sid, from |-> call.from,
                   body |-> "y", duplicate |-> FALSE, status |-> 200,
                   reply |-> IF call.pc = "committed" THEN "TRADE_SUCCESSFUL"
                                                      ELSE "ORDER_FAILED",
                   engine |-> <<"createTrade">>]
  /\ UNCHANGED <<accounts, orders, lps, ledger, txns, requests, last, nCommits,
                 mt5, md, balanceCheck, bridge, poller>>

ConcurrentChatNext ==
  \/ PlainMessage
  \/ ConfirmBegin
  \/ WriteCall
  \/ CommitCall
  \/ ConfirmEnd

(* The chat channel with overlapping confirmations *)
ConcurrentChatSpec == ChatInit /\ [][ConcurrentChatNext]_vars

----------------------------------------------------------------------------
(* Properties of the trading engine *)

Stores == <<accounts, orders, lps, ledger, txns>>
RowsOf(orderNo) == {i \in 1..Len(ledger) : ledger[i].referenceNumber = orderNo}
Signed(row) == IF row.entryNature = "CREDIT" THEN row.amount ELSE -row.amount

RECURSIVE SignedSum(_, _, _)
SignedSum(user, asset, n) ==
  IF n = 0 THEN 0
  ELSE SignedSum(user, asset, n - 1)
       + (IF ledger[n].user = user /\ ledger[n].asset = asset
          THEN Signed(ledger[n]) ELSE 0)

Opened(l) == l.ok /\ l.op = "createTrade"
Updated(l) == l.ok /\ l.op = "updateTradeStatus"
UpdatedTo(l, statuses) == Updated(l) /\ l.updateData.orderStatus \in statuses

(* C1: for every (user, asset) the signed sum of the user's ledger rows   *)
(* for that asset (CREDIT +, DEBIT -) equals the account's balance.       *)
LedgerConservation ==
  \A u \in DOMAIN accounts : \A asset \in Assets :
    SignedSum(u, asset, Len(ledger)) = accounts[u][BalanceField(asset)]

(* C2: a createTrade / updateTradeStatus call either throws, surfacing    *)
(* the error and leaving orders, LP positions, accounts, ledger and       *)
(* transactions as they were, or commits all of its writes in one step.   *)
OpenWritesWhole ==
  LET o == last'.orderNo
      n == Len(ledger)
  IN  /\ o \notin DOMAIN orders /\ o \in DOMAIN orders'
      /\ o \notin DOMAIN lps /\ o \in DOMAIN lps'
      /\ Len(ledger') = n + 4
      /\ SubSeq(ledger', 1, n) = ledger
      /\ \A i \in 1..4 : ledger'[n + i].referenceNumber = o
      /\ ledger'[n + 3].runningBalance = accounts'[last'.user].AMOUNTFC
      /\ ledger'[n + 4].runningBalance = accounts'[last'.user].METAL_WT
      /\ \A p \in DOMAIN orders : orders'[p] = orders[p] /\ lps'[p] = lps[p]
      /\ txns' = txns

CloseWritesWhole ==
  LET o == last'.orderNo
      n == Len(ledger)
      u == orders[o].user
  IN  /\ DOMAIN orders' = DOMAIN orders /\ DOMAIN lps' = DOMAIN lps
      /\ \A p \in DOMAIN orders \ {o} : orders'[p] = orders[p] /\ lps'[p] = lps[p]
      /\ txns' = txns
      /\ IF last'.updateData.orderStatus = "CLOSED"
         THEN /\ orders'[o].orderStatus = "CLOSED"
              /\ lps'[o].status = "CLOSED"
              /\ Len(ledger') = n + 4
              /\ SubSeq(ledger', 1, n) = ledger
              /\ \A i \in 1..4 : ledger'[n + i].referenceNumber = o
              /\ ledger'[n + 4].runningBalance = accounts'[u].METAL_WT
              /\ accounts'[u].METAL_WT # accounts[u].METAL_WT
         ELSE /\ ledger' = ledger
              /\ accounts' = accounts

AtomicStep ==
  last'.op \in {"createTrade", "updateTradeStatus"} =>
    IF ~last'.ok THEN Stores' = Stores /\ last'.error # ""
    ELSE IF last'.op = "createTrade" THEN OpenWritesWhole
    ELSE CloseWritesWhole

EngineAtomicity == [][AtomicStep]_vars

(* C2, the case reached: an update of an opened order aborted by a       *)
(* failed write.                                                          *)
AbortedUpdateSeen ==
  /\ ~last.ok
  /\ last.op = "updateTradeStatus"
  /\ last.error = "Error updating trade"
  /\ Len(ledger) = 4

(* C3: a PROCESSING order has exactly four ledger rows with its orderNo   *)
(* as referenceNumber, a CLOSED order exactly eight.                      *)
FourEntriesPerLeg ==
  \A o \in DOMAIN orders :
    /\ orders[o].orderStatus = "PROCESSING" => Cardinality(RowsOf(o)) = 4
    /\ orders[o].orderStatus = "CLOSED" => Cardinality(RowsOf(o)) = 8

(* C4: every PROCESSING or CLOSED order has exactly one LP position with  *)
(* positionId = orderNo and the order's volume, type and symbol, OPEN     *)
(* while the order is PROCESSING and CLOSED once the order is CLOSED.     *)
Pairing ==
  \A o \in DOMAIN orders :
    orders[o].orderStatus \in {"PROCESSING", "CLOSED"} =>
      /\ Cardinality({p \in DOMAIN lps : lps[p].positionId = orders[o].orderNo}) = 1
      /\ \A p \in DOMAIN lps :
           lps[p].positionId = orders[o].orderNo =>
             /\ lps[p].volume = orders[o].volume
             /\ lps[p].type = orders[o].type
             /\ lps[p].symbol = orders[o].symbol
             /\ lps[p].status = IF orders[o].orderStatus = "PROCESSING"
                                THEN "OPEN" ELSE "CLOSED"

(* The margin the specification debits: the request's when supplied,     *)
(* else the gold-weight value of the volume at the client price.         *)
MarginDue(account, tradeData) ==
  IF tradeData.requiredMargin # None THEN Val(tradeData.requiredMargin)
  ELSE GoldWeightValue(
         ClientOrderPrice(account, tradeData.type, tradeData.price),
         tradeData.volume)

OthersUntouched(u) == \A v \in DOMAIN accounts \ {u} : accounts'[v] = accounts[v]

(* C5: a successful OpenTrade leaves cash' = cash - requiredMargin and    *)
(* metal' = metal + volume (BUY) or metal - volume (SELL), persists the   *)
(* order as PROCESSING and changes no other account.                      *)
OpenBalanceEffectExactStep ==
  Opened(last') =>
    LET td == last'.tradeData
        u  == last'.user
    IN  /\ accounts'[u].AMOUNTFC = accounts[u].AMOUNTFC - MarginDue(accounts[u], td)
        /\ accounts'[u].METAL_WT =
             IF td.type = "BUY" THEN accounts[u].METAL_WT + td.volume
                                ELSE accounts[u].METAL_WT - td.volume
        /\ orders'[td.orderNo].orderStatus = "PROCESSING"
        /\ OthersUntouched(u)

OpenBalanceEffectExact == [][OpenBalanceEffectExactStep]_vars

(* C6: when the request carries no requiredMargin, the amount on the      *)
(* ORDER and TRANSACTION/CASH rows and debited from cash is               *)
(* goldWeightValue(clientPrice, volume), never zero.                      *)
DefaultMargin ==
  (Opened(last) /\ last.tradeData.requiredMargin = None) =>
    LET td == last.tradeData
        n  == Len(ledger)
        gw == GoldWeightValue(
                ClientOrderPrice(accounts[last.user], td.type, td.price), td.volume)
    IN  /\ gw > 0
        /\ ledger[n - 3].amount = RoundTo(gw, CentMoney)
        /\ ledger[n - 1].amount = RoundTo(gw, CentMoney)
        /\ accounts[last.user].AMOUNTFC =
             RoundTo(Val(ledger[n - 1].previousBalance) - gw, CentMoney)

(* C7: a CLOSED update credits cash with settlementAmount +               *)
(* max(clientProfit, 0), settlementAmount being the order's               *)
(* requiredMargin when set, else the closing gold-weight value (BUY) or   *)
(* the entry gold-weight value (SELL); metal moves back by the volume.    *)
CloseSettlementStep ==
  UpdatedTo(last', {"CLOSED"}) =>
    LET o      == last'.orderNo
        ord    == orders[o]
        acct   == accounts[ord.user]
        given  == last'.updateData.closingPrice
        spot   == IF TruthyNum(given) THEN Val(given) ELSE ord.price
        buy    == ord.type = "BUY"
        clientClosingPrice == IF buy THEN spot - acct.bidSpread
                                     ELSE spot + acct.askSpread
        clientProfit == IF buy
                        THEN (clientClosingPrice - ord.openingPrice) * ord.volume
                        ELSE (ord.openingPrice - clientClosingPrice) * ord.volume
        margin == requests[o].requiredMargin
        settlementAmount ==
          IF TruthyNum(margin) THEN Val(margin)
          ELSE IF buy THEN GoldWeightValue(spot, ord.volume)
                      ELSE GoldWeightValue(ord.openingPrice, ord.volume)
    IN  /\ accounts'[ord.user].AMOUNTFC =
             acct.AMOUNTFC + settlementAmount
               + (IF clientProfit > 0 THEN clientProfit ELSE 0)
        /\ accounts'[ord.user].METAL_WT =
             IF buy THEN acct.METAL_WT - ord.volume ELSE acct.METAL_WT + ord.volume

CloseSettlement == [][CloseSettlementStep]_vars

(* C8: no CLOSED update succeeds on an order that is already CLOSED, so   *)
(* the settlement and the four closing rows are written at most once.     *)
RepeatedCloseRejectedStep ==
  \A o \in DOMAIN orders :
    orders[o].orderStatus = "CLOSED" =>
      ~(UpdatedTo(last', {"CLOSED"}) /\ last'.orderNo = o)

RepeatedCloseRejected == [][RepeatedCloseRejectedStep]_vars

(* C9: orders are created PROCESSING, move only from PROCESSING to        *)
(* CLOSED, CANCELLED or FAILED, and never leave those three.              *)
TerminalStatuses == {"CLOSED", "CANCELLED", "FAILED"}

OrderStatusStep ==
  /\ \A o \in DOMAIN orders' \ DOMAIN orders : orders'[o].orderStatus = "PROCESSING"
  /\ \A o \in DOMAIN orders :
       orders'[o].orderStatus # orders[o].orderStatus =>
         /\ orders[o].orderStatus = "PROCESSING"
         /\ orders'[o].orderStatus \in TerminalStatuses

OrderStatusMachine == [][OrderStatusStep]_vars

(* C10: an update to CANCELLED or FAILED right after the OpenTrade of the *)
(* same order restores the cash and metal balances of before the open.    *)
CancelReversesStep ==
  (/\ Opened(last)
   /\ UpdatedTo(last', {"CANCELLED", "FAILED"})
   /\ last'.orderNo = last.orderNo) =>
    LET n == Len(ledger)
        u == last.user
    IN  /\ accounts'[u].AMOUNTFC = Val(ledger[n - 1].previousBalance)
        /\ accounts'[u].METAL_WT = Val(ledger[n].previousBalance)

CancelReverses == [][CancelReversesStep]_vars

(* C11: an order has a closingPrice, a closingDate or a non-zero profit   *)
(* if and only if its orderStatus is CLOSED.                              *)
ClosingFieldsIffClosed ==
  \A o \in DOMAIN orders :
    (\/ orders[o].closingPrice # None
     \/ orders[o].closingDate # Null
     \/ orders[o].profit # 0)
    <=> orders[o].orderStatus = "CLOSED"

(* C12: a createTrade or updateTradeStatus call that succeeds reads and   *)
(* writes only an account, an order and an LP position owned by the       *)
(* calling admin; a call on another admin's record changes nothing.       *)
AuthorizationScopeStep ==
  /\ Opened(last') => accounts[last'.user].addedBy = last'.adminId
  /\ Updated(last') =>
       LET o == last'.orderNo
       IN  /\ orders[o].adminId = last'.adminId
           /\ lps[o].adminId = last'.adminId
           /\ accounts[orders[o].user].addedBy = last'.adminId

AuthorizationScope == [][AuthorizationScopeStep]_vars

(* C13: idempotent deduplication. A webhook delivery that carries the   *)
(* MessageSid of the delivery before it gets an empty response, leaves  *)
(* the session map as it was, invokes no engine call and therefore      *)
(* adds no order.                                                       *)
DuplicateDroppedStep ==
  (chat'.n = chat.n + 1 /\ chat'.duplicate) =>
     /\ chat'.reply = ""
     /\ sessions' = sessions
     /\ chat'.engine = <<>>
     /\ orders' = orders
DuplicateDropped == [][DuplicateDroppedStep]_vars

(* A committed close of an order that has its LP position *)
ClosedWithLp ==
  UpdatedTo(last', {"CLOSED"}) /\ last'.orderNo \in DOMAIN lps

(* The spot the order of the step is closed at: the request's closing   *)
(* price, or the order's own price when the request gives none.         *)
ClosingSpot ==
  IF TruthyNum(last'.updateData.closingPrice)
  THEN Val(last'.updateData.closingPrice)
  ELSE orders[last'.orderNo].price

(* |lpEntryWeight - orderOpeningWeight| + |lpClosingWeight - orderClosingWeight| *)
SpreadCaptured ==
  LET order  == orders[last'.orderNo]
      lp     == lps[last'.orderNo]
      volume == order.volume
      orderClosingPrice ==
        IF order.type = "BUY" THEN ClosingSpot - accounts[order.user].bidSpread
                              ELSE ClosingSpot + accounts[order.user].askSpread
  IN  Abs(GoldWeightValue(lp.entryPrice, volume)
          - GoldWeightValue(order.openingPrice, volume))
      + Abs(GoldWeightValue(ClosingSpot, volume)
            - GoldWeightValue(orderClosingPrice, volume))

(* C14 as stated: spread capture. After a close, the stored profit of   *)
(* the LP position equals the sum of the opening and the closing weight *)
(* differences.                                                         *)
SpreadCaptureExactStep ==
  ClosedWithLp => lps'[last'.orderNo].profit = SpreadCaptured
SpreadCaptureStep ==
  ClosedWithLp => lps'[last'.orderNo].profit = ToFixed2Money(SpreadCaptured)
OpeningSpot == requests[last'.orderNo].price

(* C15: round trip at the same spot. A close at the spot the order was  *)
(* opened at returns clientProfit = 0 - (askSpread + bidSpread) x       *)
(* volume, which is never positive.                                     *)
RoundTripAtSameSpotStep ==
  (UpdatedTo(last', {"CLOSED"}) /\ ClosingSpot = OpeningSpot) =>
     LET order   == orders[last'.orderNo]
         account == accounts[order.user]
     IN  /\ last'.clientProfit
              = 0 - (account.askSpread + account.bidSpread) * order.volume
         /\ last'.clientProfit <= 0
RoundTripAtSameSpot == [][RoundTripAtSameSpotStep]_vars

(* C16: order profit on close. When a close commits, the profit stored  *)
(* on the order is the client profit returned to the caller,            *)
(* (clientClosingPrice - openingPrice) x volume for a BUY and its       *)
(* negation for a SELL, at two decimal places.                          *)
OrderProfitOnCloseStep ==
  UpdatedTo(last', {"CLOSED"}) =>
     LET order == orders[last'.orderNo]
         clientClosingPrice == Val(orders'[last'.orderNo].closingPrice)
         clientProfit ==
           IF order.type = "BUY"
           THEN (clientClosingPrice - order.openingPrice) * order.volume
           ELSE (order.openingPrice - clientClosingPrice) * order.volume
     IN  /\ last'.clientProfit = clientProfit
         /\ orders'[last'.orderNo].profit = ToFixed2Money(clientProfit)
OrderProfitOnClose == [][OrderProfitOnCloseStep]_vars

Transacted(l) == l.ok /\ l.op = "createTransaction"
Rejected(l, op) == ~l.ok /\ l.op = op

(* C17: withdrawal guard. Every Transaction record of a WITHDRAWAL was  *)
(* created with an amount of at most the balance of its asset at the    *)
(* time, so a withdrawal of more persists no record; a createTransaction *)
(* that fails leaves the transactions and both balances of every        *)
(* account as they were; and a committed deposit or withdrawal never    *)
(* takes a balance that was not negative below zero.                    *)
WithdrawalGuardStep ==
  /\ \A id \in DOMAIN txns' \ DOMAIN txns :
       LET txn == txns'[id] IN
       txn.type = "WITHDRAWAL" =>
          /\ txn.amount <= accounts[txn.user][BalanceField(txn.asset)]
          /\ accounts'[txn.user][BalanceField(txn.asset)] >= 0
  /\ Rejected(last', "createTransaction") => (txns' = txns /\ accounts' = accounts)
  /\ Transacted(last') =>
       \A u \in DOMAIN accounts : \A f \in {"AMOUNTFC", "METAL_WT"} :
          accounts[u][f] >= 0 => accounts'[u][f] >= 0
WithdrawalGuard == [][WithdrawalGuardStep]_vars

(* C17 witness: a withdrawal of more than the balance has been refused, *)
(* with a deposit on record                                             *)
WithdrawalRefusedSeen ==
  /\ Rejected(last, "createTransaction")
  /\ last.error = "Insufficient balance for withdrawal"
  /\ \E id \in DOMAIN txns : txns[id].type = "DEPOSIT"

StatusUpdated(l) == l.ok /\ l.op = "updateTransactionStatus"

(* The step moved a COMPLETED transaction to CANCELLED or FAILED *)
ReversalOf(id) ==
  /\ id \in DOMAIN txns
  /\ txns[id].status = "COMPLETED"
  /\ txns'[id].status \in {"CANCELLED", "FAILED"}

(* C18: transaction reversal. A step that moves a COMPLETED transaction *)
(* to CANCELLED or FAILED takes the deposit's amount off the balance of *)
(* the transaction's asset, or adds the withdrawal's amount back, and   *)
(* touches no other balance; and a status update changes a balance only *)
(* together with such a status change: a call that fails changes        *)
(* neither.                                                             *)
TransactionReversalStep ==
  /\ \A id \in DOMAIN txns : ReversalOf(id) =>
       LET txn   == txns[id]
           field == BalanceField(txn.asset)
           delta == IF txn.type = "DEPOSIT" THEN txn.amount ELSE 0 - txn.amount
       IN  /\ accounts'[txn.user][field] = accounts[txn.user][field] - delta
           /\ accounts' = [accounts EXCEPT ![txn.user][field] = @ - delta]
           /\ StatusUpdated(last')
  /\ (last'.op = "updateTransactionStatus" /\ accounts' # accounts) =>
       \E id \in DOMAIN txns : ReversalOf(id)
  /\ Rejected(last', "updateTransactionStatus") =>
       (txns' = txns /\ accounts' = accounts)
TransactionReversal == [][TransactionReversalStep]_vars

(* C18 witness: a completed deposit has been cancelled and its amount   *)
(* is off the balance again                                             *)
ReversalSeen ==
  /\ StatusUpdated(last)
  /\ last.status \in {"CANCELLED", "FAILED"}
  /\ last.transactionId \in DOMAIN txns
  /\ txns[last.transactionId].status = last.status
  /\ txns[last.transactionId].type = "DEPOSIT"
  /\ accounts[txns[last.transactionId].user][BalanceField(txns[last.transactionId].asset)]
       = txns[last.transactionId].previousBalance

(* The account has a SELL order whose close is still outstanding *)
SellOutstanding(u) ==
  \E o \in DOMAIN orders :
     /\ orders[o].user = u
     /\ orders[o].type = "SELL"
     /\ orders[o].orderStatus = "PROCESSING"

(* C19: balances go negative only for SELL exposure. In every reachable *)
(* state an account's cash or metal balance is negative only if the     *)
(* account has a SELL order still in PROCESSING.                        *)
NegativeOnlyForSellExposure ==
  \A u \in DOMAIN accounts :
     (accounts[u].AMOUNTFC < 0 \/ accounts[u].METAL_WT < 0) => SellOutstanding(u)

(* Call i commits in this step / ends without committing in this step *)
Committing(i) ==
  i \in DOMAIN calls.txn /\ calls.txn[i].pc = "written" /\ calls'.txn[i].pc = "committed"
Aborting(i) ==
  i \in DOMAIN calls.txn /\ calls.txn[i].pc # "aborted" /\ calls'.txn[i].pc = "aborted"

(* The balances are those the call yields when it runs alone on the *)
(* store as committed so far                                        *)
BalancesAsIfAlone(after, r) ==
  /\ r.ok
  /\ \A u \in DOMAIN after :
       /\ after[u].AMOUNTFC = r.store.accounts[u].AMOUNTFC
       /\ after[u].METAL_WT = r.store.accounts[u].METAL_WT

(* C20: no lost update under concurrency. Of calls on one account that  *)
(* overlap in time, each one that commits leaves the cash and metal     *)
(* balances it would leave had it run alone after the calls committed   *)
(* before it, so the balances reflect the delta of every committed      *)
(* call; a call that does not commit fails and leaves every store as it *)
(* was.                                                                 *)
NoLostUpdateStep ==
  /\ \A i \in DOMAIN calls.txn :
       Committing(i) => BalancesAsIfAlone(accounts', RunCall(calls.txn[i], Store, 0))
  /\ \A i \in DOMAIN calls.txn :
       Aborting(i) => (accounts' = accounts /\ orders' = orders /\ lps' = lps
                       /\ ledger' = ledger)
NoLostUpdate == [][NoLostUpdateStep]_vars

(* C20 witness: two calls on the account overlapped, one committed and *)
(* the other was refused its write and rolled back                     *)
OverlapResolvedSeen ==
  \E i, j \in DOMAIN calls.txn :
     /\ calls.txn[i].pc = "committed"
     /\ calls.txn[j].pc = "aborted"
     /\ calls.txn[j].error = "WriteConflict"
     /\ calls.txn[j].seen = calls.txn[i].seen
     /\ calls.txn[i].userId = calls.txn[j].userId

----------------------------------------------------------------------------
(* Properties of the MT5 bridge *)

(* The venue error of an attempt carries the given retcode *)
Carries(outcome, code) ==
  /\ outcome.error # None
  /\ \E i \in 1..(Len(outcome.error) - 1) :
       outcome.error[i] = "Code:" /\ outcome.error[i + 1] = code

Transient(outcome) == Carries(outcome, "10020") \/ Carries(outcome, "10021")

PlaceTradeAttempts(call) ==
  Cardinality({i \in 1..Len(call.history) : call.history[i].sent})

RetryBound ==
  LET call == mt5.place
      n == Len(call.history)
  IN /\ n <= 4
     /\ PlaceTradeAttempts(call) <= 4
     /\ call.retryCount <= 3
     /\ \A i \in 1..(n - 1) : Transient(call.history[i])
     /\ call.pc = "running" => \A i \in 1..n : Transient(call.history[i])
     /\ call.pc = "done" =>
          /\ n >= 1
          /\ call.result.success <=> call.history[n].error = None
          /\ ~call.result.success => call.result.error # None
          /\ Transient(call.history[n]) => n = 4
          /\ (call.history[n].error # None /\ ~Transient(call.history[n])) =>
               ~call.result.success

(* C21: a placeTrade call goes on to another attempt only after a venue   *)
(* error that carries retcode 10020 or 10021, at most 3 times (4 attempts *)
(* at most); every other error ends the call with an error, a success     *)
(* ends it with one success result, and every call ends.                  *)
PlaceTradeRetryBound ==
  /\ []RetryBound
  /\ (mt5.place.pc = "running") ~> (mt5.place.pc = "done")

(* A call that met 10020, 10020 and then succeeded *)
RetriedTwiceThenPlaced ==
  LET call == mt5.place
  IN /\ call.pc = "done"
     /\ Len(call.history) = 3
     /\ Carries(call.history[1], "10020")
     /\ Carries(call.history[2], "10020")
     /\ call.history[3].error = None
     /\ call.result.success
     /\ call.retryCount = 2

(* The venue's answer to the last attempt of the call says "Position not  *)
(* found", in a rejected request or in the result of close_trade          *)
ReportedNotFound(call) ==
  LET reply == call.history[Len(call.history)]
  IN /\ call.ticket # Undefined
     /\ reply.stage # "early"
     /\ \/ reply.rejected # None /\ Includes(reply.rejected, PositionNotFound)
        \/ reply.error # None /\ Includes(reply.error, PositionNotFound)

(* C22: a closeTrade call never throws: it ends with success, or with     *)
(* success = false, where likelyClosed is true exactly when the venue     *)
(* reported "Position not found".                                         *)
CloseMissingPositionNonFatal ==
  mt5.close.pc = "done" =>
    \/ mt5.close.result.success
    \/ /\ ~mt5.close.result.success
       /\ mt5.close.result.likelyClosed <=> ReportedNotFound(mt5.close)

(* The tick cached for the symbol is younger than maxAge *)
CachedWithin(symbol, maxAge) ==
  /\ symbol \in DOMAIN mt5.priceData
  /\ mt5.now - mt5.priceData[symbol].timestamp < maxAge

(* C23: isPriceFresh(symbol, maxAge) is true exactly while the tick cached *)
(* for the symbol, by getPrice or by a push, is younger than maxAge; it is *)
(* false for a symbol with nothing cached.                                 *)
FreshWhileCachedTickYoung ==
  \A symbol \in Symbols, maxAge \in {TickMs, DefaultMaxAge} :
    isPriceFresh(mt5, symbol, maxAge) <=> CachedWithin(symbol, maxAge)

----------------------------------------------------------------------------
(* Properties of the market data service *)

(* C24: getMarketData returns the cached tick without a refresh when it   *)
(* is fresh; after a failed refresh it returns the tick that was cached,  *)
(* with isFresh = false; it returns null only when the bridge has nothing *)
(* cached for the symbol.                                                 *)
MarketDataFallbackStep ==
  (md' # md /\ md'.pc = "done") =>
    /\ md'.refresh = "none" =>
         /\ ~md'.result.null
         /\ md'.result.bid = md'.data.bid /\ md'.result.ask = md'.data.ask
         /\ md'.result.isFresh
    /\ (md'.refresh = "failed" /\ md'.data # NoData) =>
         /\ ~md'.result.null
         /\ md'.result.bid = md'.data.bid /\ md'.result.ask = md'.data.ask
         /\ ~md'.result.isFresh
    /\ md'.result.null =>
         /\ md'.refresh = "failed"
         /\ md'.symbol \notin DOMAIN mt5'.priceData

MarketDataFallback == [][MarketDataFallbackStep]_vars

----------------------------------------------------------------------------
(* Properties of the balance policy *)

(* The volumes, in thousandths, of the orders in os *)
RECURSIVE TotalVolume(_)
TotalVolume(os) ==
  IF os = {} THEN 0
  ELSE LET o == CHOOSE x \in os : TRUE
       IN orders[o].volume + TotalVolume(os \ {o})

(* balance - (volume + existingVolume) x BASE_AMOUNT_PER_VOLUME x         *)
(* (1 + MINIMUM_BALANCE_PERCENTAGE / 100), existingVolume being the       *)
(* volume of the account's PROCESSING orders                              *)
RemainingBalance(accountId, volume) ==
  accounts[accountId].AMOUNTFC
    - (volume * Milli + TotalVolume(OpenOrdersOf(Store, accountId)))
        * (BASE_AMOUNT_PER_VOLUME \div (100 * Milli))
        * (100 + MINIMUM_BALANCE_PERCENTAGE)

(* C25: checkSufficientBalance succeeds exactly when the volume is        *)
(* positive and the balance covers base amount plus margin of the         *)
(* requested volume and of the volume of the account's PROCESSING orders; *)
(* cash 100, volume 10, base 50, margin 20% gives no success and          *)
(* maxAllowedVolume 1.                                                    *)
BalanceCheckResult ==
  /\ balanceCheck.accountId # Null =>
       (balanceCheck.result.success <=>
          /\ RemainingBalance(balanceCheck.accountId, balanceCheck.volume) >= 0
          /\ balanceCheck.volume > 0)
  /\ ~BalancePolicy(100000000, 10, 0, 50000000, 20).success
  /\ BalancePolicy(100000000, 10, 0, 50000000, 20).maxAllowedVolume = 1

(* What one unit of volume costs with its margin *)
UnitWithMargin ==
  (BASE_AMOUNT_PER_VOLUME \div 100) * (100 + MINIMUM_BALANCE_PERCENTAGE)

(* floor((balance - existingTotal) / (BASE x (1 + PCT/100))) *)
MaxAllowedVolume(accountId) ==
  (accounts[accountId].AMOUNTFC
     - UnitWithMargin * SumVolume(Store, OpenOrdersOf(Store, accountId)))
  \div UnitWithMargin

TransactionDelta(txn) ==
  IF txn.type = "DEPOSIT" THEN txn.amount ELSE 0 - txn.amount

RECURSIVE SumOfDeltas(_)
SumOfDeltas(ids) ==
  IF ids = {} THEN 0
  ELSE LET id == CHOOSE i \in ids : TRUE
       IN  TransactionDelta(txns[id]) + SumOfDeltas(ids \ {id})

CompletedOn(user, asset) ==
  {id \in DOMAIN txns : /\ txns[id].user = user
                         /\ txns[id].asset = asset
                         /\ txns[id].status = "COMPLETED"}

(* C38: after any sequence of updateTransactionStatus calls the balance  *)
(* of an account includes the delta of a transaction exactly when that   *)
(* transaction is COMPLETED (no reversal without a matching application):*)
(* on accounts that start at zero and have not traded, each balance is   *)
(* the sum of the deltas of its COMPLETED transactions.                  *)
BalanceIncludesCompleted ==
  orders = <<>> =>
    \A user \in DOMAIN accounts, asset \in Assets :
      accounts[user][BalanceField(asset)] = SumOfDeltas(CompletedOn(user, asset))

(* The close that directly follows the open of the first and only order  *)
(* of an account that has had no deposit or withdrawal: the balances     *)
(* before the open were those of Init, cash 0 and metal 0.               *)
ClosesWhatWasJustOpened ==
  /\ Opened(last)
  /\ TruthyNum(last.tradeData.requiredMargin)
  /\ UpdatedTo(last', {"CLOSED"})
  /\ last'.orderNo = last.tradeData.orderNo
  /\ DOMAIN orders = {last'.orderNo}
  /\ txns = <<>>

(* C39: open-then-close cash round trip. For an order opened with a      *)
(* supplied requiredMargin m > 0 and closed with nothing in between,     *)
(* cash after the close = cash before the open + max(clientProfit, 0),   *)
(* metal after the close = metal before the open, and cash is not lower  *)
(* after the round trip than before it.                                  *)
CashRoundTripStep ==
  ClosesWhatWasJustOpened =>
    LET u == last.user
        userProfit == IF last'.clientProfit > 0 THEN last'.clientProfit ELSE 0
    IN  /\ accounts'[u].AMOUNTFC = 0 + userProfit
        /\ accounts'[u].METAL_WT = 0
        /\ accounts'[u].AMOUNTFC >= 0
CashRoundTrip == [][CashRoundTripStep]_vars

(* C40: non-closing updates leave the books alone. An updateTradeStatus  *)
(* call whose orderStatus is absent or not CLOSED changes no account     *)
(* balance and appends no ledger row, and every call changes only        *)
(* whitelisted fields of the order it names (orderStatus, closingPrice,  *)
(* closingDate, profit, comment, price), never its type, volume, symbol, *)
(* user, adminId or orderNo, and no other order.                         *)
NonClosingFrameStep ==
  last'.op = "updateTradeStatus" =>
    /\ ~UpdatedTo(last', {"CLOSED"}) => (accounts' = accounts /\ ledger' = ledger)
    /\ DOMAIN orders' = DOMAIN orders
    /\ \A o \in DOMAIN orders :
         /\ \A f \in DOMAIN orders[o] \ allowedUpdates :
              orders'[o][f] = orders[o][f]
         /\ (Updated(last') /\ o # last'.orderNo) => orders'[o] = orders[o]
NonClosingFrame == [][NonClosingFrameStep]_vars

(* An update naming another type, volume and user has succeeded on an   *)
(* order whose account has traded                                        *)
RestrictedUpdateServed ==
  /\ Updated(last)
  /\ last.updateData = RestrictedUpdate
  /\ orders[last.orderNo].volume # RestrictedUpdate.volume
  /\ orders[last.orderNo].user # RestrictedUpdate.user
  /\ ledger # <<>>

----------------------------------------------------------------------------
(* Properties of the chat channel *)

(* The delivery of the step comes from the registered phone *)
Delivered(bodies) ==
  chat'.n = chat.n + 1 /\ chat'.from = "p1" /\ chat'.body \in bodies

BareNumbers == {"1", "2", "3", "4", "5"}

(* C26: a message that is a bare number N is an order to buy N in every   *)
(* session state: when the balance covers N, the session goes to          *)
(* CONFIRM_ORDER with the pending order BUY N.                            *)
BareNumberIsBuyStep ==
  (/\ Delivered(BareNumbers)
   /\ checkSufficientBalance(Store, "u1", ParseFloat(chat'.body)).success) =>
     /\ sessions'["p1"].state = "CONFIRM_ORDER"
     /\ sessions'["p1"].currentOrder =
          [type |-> "BUY", quantity |-> ParseFloat(chat'.body)]

BareNumberIsBuy == [][BareNumberIsBuyStep]_vars

(* The session of the registered phone is in the given state before the   *)
(* step                                                                   *)
SessionIn(state) ==
  "p1" \in DOMAIN sessions /\ sessions["p1"].state = state

(* The order the step created is the pending order of the session *)
PlacedPending ==
  LET orderNo == Cardinality(DOMAIN orders) + 1
  IN chat'.reply = "TRADE_SUCCESSFUL" =>
       /\ orderNo \in DOMAIN orders'
       /\ orders'[orderNo].type = sessions["p1"].currentOrder.type
       /\ orders'[orderNo].volume = sessions["p1"].currentOrder.quantity * Milli
       /\ orders'[orderNo].user = "u1"

(* The steps of the confirmation that do not depend on a price *)
ConfirmationOtherwise ==
  /\ (Delivered({"n", "cancel"}) /\ SessionIn("CONFIRM_ORDER")) =>
       /\ chat'.engine = <<>>
       /\ orders' = orders
       /\ sessions'["p1"].state = "MAIN_MENU"
  /\ (Delivered({"zzz", "1 oz"}) /\ SessionIn("CONFIRM_ORDER")) =>
       /\ chat'.engine = <<>>
       /\ orders' = orders
       /\ sessions'["p1"].state = "CONFIRM_ORDER"
  /\ (chat'.n = chat.n + 1 /\ chat'.engine = <<"createTrade">>) =>
       /\ chat'.from = "p1" /\ chat'.body = "y"
       /\ SessionIn("CONFIRM_ORDER")
  /\ (chat'.n = chat.n + 1 /\ DOMAIN orders' # DOMAIN orders) =>
       chat'.engine = <<"createTrade">>

ConfirmationAlwaysPlacesStep ==
  /\ (Delivered({"y"}) /\ SessionIn("CONFIRM_ORDER")) =>
       /\ chat'.engine = <<"createTrade">>
       /\ PlacedPending
       /\ sessions'["p1"].state = "MAIN_MENU"
  /\ ConfirmationOtherwise

ConfirmationAtMostOnceStep ==
  /\ (Delivered({"y"}) /\ SessionIn("CONFIRM_ORDER")) =>
       /\ \/ chat'.engine = <<"createTrade">>
          \/ /\ chat'.engine = <<>>
             /\ chat'.reply = "ORDER_FAILED"
             /\ orders' = orders /\ accounts' = accounts /\ ledger' = ledger
       /\ PlacedPending
       /\ sessions'["p1"].state = "MAIN_MENU"
  /\ ConfirmationOtherwise

PendingOrderOnlyInOrderFlow ==
  \A From \in DOMAIN sessions :
    sessions[From].currentOrder # NoCurrentOrder =>
      sessions[From].state \in {"SELECT_QUANTITY", "CONFIRM_ORDER"}

UnauthorizedFencedOffStep ==
  (chat'.n = chat.n + 1 /\ chat'.from = "p0") =>
    /\ chat'.reply = "ACCESS_DENIED"
    /\ chat'.status = 200
    /\ sessions' = sessions
    /\ chat'.engine = <<>>
    /\ accounts' = accounts /\ orders' = orders /\ lps' = lps
    /\ ledger' = ledger /\ txns' = txns

(* C29: a message from a number that matches no account is answered with *)
(* the access-denied text; it creates and changes no session, calls no    *)
(* engine operation and changes no order, balance or ledger entry.        *)
UnauthorizedFencedOff == [][UnauthorizedFencedOffStep]_vars

(* The unregistered number was turned away while the registered one has a *)
(* session and an open order                                              *)
DeniedSeen ==
  /\ chat.from = "p0" /\ chat.reply = "ACCESS_DENIED"
  /\ "p1" \in DOMAIN sessions /\ "p0" \notin DOMAIN sessions
  /\ orders # <<>>

(* C30: whatever happens while a delivery is handled, the webhook answers *)
(* the provider with status 200.                                          *)
AlwaysAnswers200 == chat.n > 0 => chat.status = 200

(* The side chosen at the menu *)
MenuSide(body) == IF body = "1" THEN "BUY" ELSE "SELL"

MenuOrderKeepsSideStep ==
  /\ (Delivered({"1", "2"}) /\ ~chat'.duplicate /\ chat'.status = 200
       /\ (SessionIn("MAIN_MENU") \/ SessionIn("START"))) =>
       /\ sessions'["p1"].state = "SELECT_QUANTITY"
       /\ sessions'["p1"].currentOrder.type = MenuSide(chat'.body)
  /\ (Delivered(BareNumbers) /\ SessionIn("SELECT_QUANTITY")) =>
       sessions'["p1"].currentOrder.type = sessions["p1"].currentOrder.type
  /\ (Delivered({"y"}) /\ SessionIn("CONFIRM_ORDER")) => PlacedPending

(* C35: Buy or Sell chosen in MAIN_MENU moves the session to              *)
(* SELECT_QUANTITY with that side pending; a quantity entered there never *)
(* changes the side; and the order placed on Y has the pending side and   *)
(* volume.                                                                *)
MenuOrderKeepsSide == [][MenuOrderKeepsSideStep]_vars

(* C36: for one entry of a session into CONFIRM_ORDER createTrade is      *)
(* called at most once, also when several confirmations with distinct     *)
(* message ids are handled while the first placement still awaits the     *)
(* engine.                                                                *)
OnePlacementPerEntry ==
  \A i, j \in DOMAIN calls.txn :
    (/\ calls.txn[i].from = calls.txn[j].from
     /\ calls.txn[i].entered = calls.txn[j].entered) => i = j

----------------------------------------------------------------------------
(* Properties of the bridge's transport *)

(* The request was completed by its own answer or by its timeout, once *)
CompletedOnce(b, r) ==
  /\ r.settles = 1
  /\ r.by \in {"response", "timeout"}
  /\ r.by = "response" => r.response = r.id
  /\ r.by = "timeout" => b.now >= r.sentAt + r.timeout

(* C31: request ids are strictly increasing and never reused; a request    *)
(* is in the pending map exactly while it is not completed, and a request  *)
(* out of the map was completed exactly once, by the answer carrying its   *)
(* own id or by its timeout (30 s, 45 s for trades), whatever answers      *)
(* arrive afterwards.                                                      *)
BridgeRequestCompletion ==
  /\ \A i, j \in DOMAIN bridge.sent :
       i < j => bridge.sent[i].id < bridge.sent[j].id
  /\ \A i \in DOMAIN bridge.sent :
       LET r == bridge.sent[i]
       IN /\ r.timeout \in {30000, 45000}
          /\ r.id \in bridge.responseCallbacks
               => r.promise = "pending" /\ r.settles = 0
          /\ r.id \notin bridge.responseCallbacks => CompletedOnce(bridge, r)

----------------------------------------------------------------------------
(* Properties of the market data poller *)

(* A timer tick during a running poll leaves the poller as it is *)
TickDuringPollStep ==
  (poller.isUpdating /\ poller' # poller)
    => /\ poller.running = 1
       /\ \/ poller'.running = 1 /\ poller'.isUpdating
          \/ poller'.running = 0 /\ ~poller'.isUpdating

(* C32: at most one poll of the market-data poller is in progress at any   *)
(* time, the isUpdating flag being up exactly while one is; a timer tick   *)
(* during a running poll starts nothing, also after the timer was          *)
(* restarted; and every poll ends with the flag lowered, so that a later   *)
(* tick can poll again.                                                    *)
SingleInFlightPoll ==
  /\ [](poller.running <= 1 /\ (poller.isUpdating <=> poller.running = 1))
  /\ [][TickDuringPollStep]_vars
  /\ (poller.isUpdating ~> ~poller.isUpdating)

(* A poll is running while the timer that began it has been replaced by   *)
(* one with another delay                                                 *)
PollRunningAcrossRestart ==
  /\ poller.isUpdating
  /\ poller.running = 1
  /\ poller.pc = "fetching"
  /\ poller.priceUpdateInterval # 0
  /\ poller.period # poller.startedOn

(* The step on which the getPrice of a poll fails *)
PollFetchFailedStep == poller.pc = "fetching" /\ poller'.pc = "idle"

PollBackoffStep ==
  PollFetchFailedStep => poller'.UPDATE_INTERVAL = Widened(poller.UPDATE_INTERVAL)

(* C33: whenever the fetch of a stale symbol's price fails during a poll,  *)
(* the poll interval grows by 1.2, capped at 30 s; and the poll interval   *)
(* always lies between 5 s and 30 s.                                       *)
PollBackoffOnError ==
  /\ [][PollBackoffStep]_vars
  /\ [](poller.UPDATE_INTERVAL >= 5000 /\ poller.UPDATE_INTERVAL <= 30000)

----------------------------------------------------------------------------
(* Properties of the ledger rows *)

(* The rows a committed createTrade or closing updateTradeStatus appended *)
RowsWrittenStep ==
  /\ last'.ok
  /\ last'.op \in {"createTrade", "updateTradeStatus"}
  /\ Len(ledger') > Len(ledger)

(* Rows n+1..n+4 are ORDER, LP_POSITION, TRANSACTION of CASH and of GOLD *)
RowOrder(l, n) ==
  /\ Len(l) = n + 4
  /\ l[n + 1].entryType = "ORDER"
  /\ l[n + 2].entryType = "LP_POSITION"
  /\ l[n + 3].entryType = "TRANSACTION" /\ l[n + 3].asset = "CASH"
  /\ l[n + 4].entryType = "TRANSACTION" /\ l[n + 4].asset = "GOLD"

(* Every row carries the balance after the call *)
RunningIsBalanceAfter(l, n, after) ==
  /\ \A i \in 1..3 : l[n + i].runningBalance = after.AMOUNTFC
  /\ l[n + 4].runningBalance = after.METAL_WT

(* The TRANSACTION rows carry the balance before the call, and the two    *)
(* balances differ by the row's amount                                    *)
TransactionRowsAddUp(l, n, before) ==
  /\ l[n + 3].previousBalance = Some(before.AMOUNTFC)
  /\ l[n + 4].previousBalance = Some(before.METAL_WT)
  /\ \A i \in 3..4 :
       l[n + i].runningBalance = Val(l[n + i].previousBalance) + Signed(l[n + i])

LedgerSnapshotsStep ==
  RowsWrittenStep =>
    LET n == Len(ledger)
        u == ledger'[n + 1].user
    IN /\ RowOrder(ledger', n)
       /\ RunningIsBalanceAfter(ledger', n, accounts'[u])
       /\ TransactionRowsAddUp(ledger', n, accounts[u])

(* C34: every ledger row written by createTrade or by a closing           *)
(* updateTradeStatus carries as runningBalance the account balance of its *)
(* asset after the call, every TRANSACTION row carries as previousBalance *)
(* the balance before it, with runningBalance = previousBalance + amount  *)
(* on CREDIT and - amount on DEBIT, and the rows are written in the order *)
(* ORDER, LP_POSITION, TRANSACTION of CASH, TRANSACTION of GOLD.          *)
LedgerSnapshots == [][LedgerSnapshotsStep]_vars

====
